---- MODULE Spec2Model ----
(***************************************************************************)
(* Verification model of TOASTY's finite element component                 *)
(* (src/toasty/FEM_comp.py).                                               *)
(*                                                                         *)
(* Numbers.  The program computes in floating point; the model computes    *)
(* the same expressions exactly.  Arrays are functions on 0..n-1, as in    *)
(* the source.  Vectors (density, temp, q, F_glob, T_set values, mesh      *)
(* coordinates) hold whole numbers.  Matrix entries (K_loc, K_vals,        *)
(* K_glob, pRpu, pRpx_coeff_mat, pRpx) and residuals are held in quarters: *)
(* the stored integer is four times the value, so that the coefficients    *)
(* 1.0, 0.5 and 0.25 written on Dirichlet diagonals are 4, 2 and 1.        *)
(* A quadrature coordinate is +-1/sqrt(3); a value c + s/sqrt(3) met       *)
(* during quadrature is the pair <<c, s>>.                                 *)
(***************************************************************************)
EXTENDS Integers, Sequences, FiniteSets, TLC

VARIABLES
    \* self.options, fixed at construction
    nx, ny, x_lim, y_lim, T_set, q,
    \* members written once by _preprocess_global_stiffness
    K_rows, K_cols, K_vals, idx_density_map, idx_val_map,
    \* members written once by _preprocess_pRpx
    pRpx_coeff_mat, pRpx_temp_idx,
    \* self.density, self.K_glob, self.F_glob
    density, K_glob, F_glob,
    \* self.pRpu, self.pRpx, written by linearize
    pRpu, pRpx,
    \* the last call made on a component: its name, arguments and results
    call,
    \* options["r"] and self.weight_mtx of a LinearDensityFilter (utils.py)
    filter_r, weight_mtx,
    \* the options n, x_min, x_max, y_min, y_max of a SmoothStep (utils.py)
    step,
    \* options["p"] of a PenalizeDensity (utils.py)
    penalty,
    \* self.node_idx of an AvgTemp (utils.py), and the arrays that the
    \* framework keeps for it between calls: outputs["avg_temp"] and the
    \* values of the two declared partials
    node_idx, avg_temp, avg_jacobian,
    \* the arguments of Airport.findBetterExit (dataCollection/airports/Airport.py)
    flightDetails, isDeparture,
    \* a catchDepartures or catchArrivals session (dataCollection/actualData/
    \* catchFlights.py): which of the two and its position, the local
    \* flightNumbers, the flights of allFlights still to be looked at, and the
    \* files written so far
    session, flightNumbers, allFlights, saved

options == <<nx, ny, x_lim, y_lim, T_set, q>>
preprocessed == <<K_rows, K_cols, K_vals, idx_density_map, idx_val_map,
                  pRpx_coeff_mat, pRpx_temp_idx>>
utilities == <<filter_r, weight_mtx, step, penalty, node_idx, avg_temp, avg_jacobian>>
collection == <<flightDetails, isDeparture, session, flightNumbers, allFlights, saved>>
vars == <<options, preprocessed, density, K_glob, F_glob, pRpu, pRpx, call, utilities,
          collection>>

-----------------------------------------------------------------------------
(* Bounds of the model *)

\* largest number of mesh coordinates per axis in the assembly checks
MaxNum == 3
\* densities are drawn from 0..MaxDensity
MaxDensity == 2
\* at most this many nodes have a prescribed temperature in the assembly checks
MaxSet == 2
\* filter radii are the multiples of 1/2 from -1 to MaxR
MaxR == 3
\* the largest order n of the smoothstep
MaxOrder == 3
\* the largest penalty factor p
MaxP == 3
\* the longest trail, in points
MaxTrail == 3
\* the longest list of flights of one refresh
MaxFlights == 2
\* the most refresh cycles of one session
MaxCycles == 2

-----------------------------------------------------------------------------
(* Fixed-point coefficients and options of the program *)

\* 1.0, 0.5 and 0.25 in quarters
One == 4
Half == 2
Quarter == 1
\* options["conductivity"]: the value that, with the 1 x 2 elements of the
\* meshes used here, makes every entry of K_loc a whole number of quarters
conductivity == 3
nodes_per_elem == 4

-----------------------------------------------------------------------------
(* Generic array helpers *)

\* sum of f[lo] .. f[hi-1]
RECURSIVE SumIn(_, _, _)
SumIn(f, lo, hi) ==
    IF hi <= lo THEN 0
    ELSE IF hi = lo + 1 THEN f[lo]
    ELSE SumIn(f, lo, (lo + hi) \div 2) + SumIn(f, (lo + hi) \div 2, hi)

\* sum of f[0] .. f[n-1]
SumTo(f, n) == SumIn(f, 0, n)

\* the positions lo .. hi-1 where mask holds, ascending, as a sequence
RECURSIVE WhereIn(_, _, _)
WhereIn(mask, lo, hi) ==
    IF hi <= lo THEN <<>>
    ELSE IF hi = lo + 1 THEN (IF mask[lo] THEN <<lo>> ELSE <<>>)
    ELSE WhereIn(mask, lo, (lo + hi) \div 2) \o WhereIn(mask, (lo + hi) \div 2, hi)

\* np.nonzero / np.ix_ of a boolean mask of length n
Where(mask, n) == WhereIn(mask, 0, n)

\* position k (from 1) of value v in the sequence s, 0 when absent
IndexOf(s, v) ==
    IF \E k \in 1..Len(s) : s[k] = v THEN CHOOSE k \in 1..Len(s) : s[k] = v ELSE 0

\* the function f with every value computed
Mat(f) == f @@ [x \in {} |-> 0]
\* the matrix A (a function of functions) with every entry computed
Mat2(A) == Mat([r \in DOMAIN A |-> Mat(A[r])])

\* A @ x for a matrix A with rows 0..nr-1 and columns 0..nc-1
MatVec(A, x, nr, nc) ==
    [r \in 0..(nr - 1) |-> SumTo([c \in 0..(nc - 1) |-> A[r][c] * x[c]], nc)]

\* the product without the transpose where the matrix is square
MatTVec_square_untransposed(A, x, nr, nc) ==
    [c \in 0..(nc - 1) |->
        SumTo([r \in 0..(nr - 1) |-> (IF nr = nc THEN A[c][r] ELSE A[r][c]) * x[r]], nr)]

\* A.T @ x
MatTVec(A, x, nr, nc) ==
    [c \in 0..(nc - 1) |-> SumTo([r \in 0..(nr - 1) |-> A[r][c] * x[r]], nr)]

-----------------------------------------------------------------------------
(* Mesh *)

n_elem == (nx - 1) * (ny - 1)
n_node == nx * ny

isfinite(t) == t.fin
Unset == [fin |-> FALSE, val |-> 0]
Finite(v) == [fin |-> TRUE, val |-> v]

\* np.linspace(lim[0], lim[1], n)[i]
linspace(lim, n, i) == lim[1] + (i * (lim[2] - lim[1])) \div (n - 1)

\* gen_mesh: np.meshgrid(x_linspace, y_linspace, indexing="ij")
mesh_x == [i \in 0..(nx - 1) |-> [j \in 0..(ny - 1) |-> linspace(x_lim, nx, i)]]
mesh_y == [i \in 0..(nx - 1) |-> [j \in 0..(ny - 1) |-> linspace(y_lim, ny, j)]]

_flattened_node_ij(i, j) == i * ny + j

\* element index e of the flattened meshgrid of (nx-1) x (ny-1) elements
elem_i(e) == e \div (ny - 1)
elem_j(e) == e % (ny - 1)

-----------------------------------------------------------------------------
(* Element kernel *)

\* signs of the quadrature points; the coordinates are sign/sqrt(3)
quad_pts == << <<-1, -1>>, <<-1, 1>>, <<1, -1>>, <<1, 1>> >>

\* 4 * _dN_dxi(xi, eta): a 2 x 4 matrix of pairs <<c, s>>
_dN_dxi(xi, eta) ==
    << << <<-1, eta>>, <<1, -eta>>, <<1, eta>>, <<-1, -eta>> >>,
       << <<-1, xi>>, <<-1, -xi>>, <<1, xi>>, <<1, -xi>> >> >>

\* 12 * _N(xi, eta): 3 * (a + xi/sqrt3) * (b + eta/sqrt3) as a pair
_N(xi, eta) ==
    LET prod(a, sx, b, sy) == <<3 * a * b + sx * sy, 3 * (a * sy + b * sx)>>
    IN  << prod(-1, xi, -1, eta),
           prod(1, xi, 1, -eta),
           prod(1, xi, 1, eta),
           prod(1, -xi, 1, eta) >>

dN_dxi == [p \in 1..4 |-> _dN_dxi(quad_pts[p][1], quad_pts[p][2])]
N == [p \in 1..4 |-> _N(quad_pts[p][1], quad_pts[p][2])]

\* three times the product of two pairs (1/sqrt3 squared is 1/3)
Mul3(x, y) == <<3 * x[1] * y[1] + x[2] * y[2], 3 * (x[1] * y[2] + x[2] * y[1])>>

nodal_coord(i, j) ==
    << <<mesh_x[i][j], mesh_y[i][j]>>,
       <<mesh_x[i + 1][j], mesh_y[i + 1][j]>>,
       <<mesh_x[i + 1][j + 1], mesh_y[i + 1][j + 1]>>,
       <<mesh_x[i][j + 1], mesh_y[i][j + 1]>> >>

\* 4 * (dN @ nodal_coord): a 2 x 2 matrix of pairs
Jacobian(dN, coord) ==
    [r \in 1..2 |-> [c \in 1..2 |->
        << SumTo([a \in 0..3 |-> dN[r][a + 1][1] * coord[a + 1][c]], 4),
           SumTo([a \in 0..3 |-> dN[r][a + 1][2] * coord[a + 1][c]], 4) >>]]

\* an element matrix with the diagonal only
_local_stiffness_diagonal(i, j) ==
    [a \in 0..3 |-> [b \in 0..3 |-> IF a = b THEN One ELSE 0]]

\* _local_stiffness(i, j) in quarters.  The mesh of gen_mesh is axis-aligned,
\* so J is diagonal and B = solve(J, dN) divides row r of dN by J[r][r]:
\* k * (B.T @ B)[a][b] * det(J), summed over the quadrature points, is
\* k * (J22^2 * dN[1][a]*dN[1][b] + J11^2 * dN[2][a]*dN[2][b]) / (J11 * J22) / 4
_local_stiffness(i, j) ==
    LET coord == nodal_coord(i, j)
        term(p, a, b) ==
            LET J == Jacobian(dN_dxi[p], coord)
                J11 == J[1][1][1]
                J22 == J[2][2][1]
            IN  conductivity
                * (J22 * J22 * Mul3(dN_dxi[p][1][a + 1], dN_dxi[p][1][b + 1])[1]
                   + J11 * J11 * Mul3(dN_dxi[p][2][a + 1], dN_dxi[p][2][b + 1])[1])
        J0 == Jacobian(dN_dxi[1], coord)
    IN  Mat2([a \in 0..3 |-> [b \in 0..3 |->
            (One * SumTo([p \in 0..3 |-> term(p + 1, a, b)], 4))
                \div (48 * J0[1][1][1] * J0[2][2][1])]])

\* the load q at every corner, without the shape functions and det(J)
_local_force_unweighted(i, j, qe) == [a \in 0..3 |-> qe]

\* _local_force(i, j, q): sum over the quadrature points of q * N * det(J)
_local_force(i, j, qe) ==
    LET coord == nodal_coord(i, j)
        term(p, a) ==
            LET J == Jacobian(dN_dxi[p], coord)
            IN  qe * N[p][a + 1][1] * J[1][1][1] * J[2][2][1]
    IN  [a \in 0..3 |-> SumTo([p \in 0..3 |-> term(p + 1, a)], 4) \div (12 * 16)]

-----------------------------------------------------------------------------
(* Sparsity preprocessing of the stiffness matrix *)

\* shape of a 2D option array
Rows(A) == Cardinality(DOMAIN A)
Cols(A) == Cardinality(DOMAIN A[0])

\* np.isfinite(self.options["T_set"]).flatten()
T_is_set ==
    [n \in 0..(Rows(T_set) * Cols(T_set) - 1) |->
        isfinite(T_set[n \div Cols(T_set)][n % Cols(T_set)])]

\* the corners taken clockwise instead
node_glob_idx_clockwise ==
    [c \in 0..3 |-> [e \in 0..(n_elem - 1) |->
        CASE c = 0 -> elem_i(e) * ny + elem_j(e)
          [] c = 1 -> elem_i(e) * ny + elem_j(e) + 1
          [] c = 2 -> (elem_i(e) + 1) * ny + elem_j(e) + 1
          [] c = 3 -> (elem_i(e) + 1) * ny + elem_j(e)]]

\* global indices of the corner nodes of each element, corners in the order
\* lower left, lower right, upper right, upper left
node_glob_idx ==
    [c \in 0..3 |-> [e \in 0..(n_elem - 1) |->
        CASE c = 0 -> elem_i(e) * ny + elem_j(e)
          [] c = 1 -> (elem_i(e) + 1) * ny + elem_j(e)
          [] c = 2 -> (elem_i(e) + 1) * ny + elem_j(e) + 1
          [] c = 3 -> elem_i(e) * ny + elem_j(e) + 1]]

\* length of one of the four corner streams
stream_len == n_elem * nodes_per_elem

\* a diagonal entry that is not scaled for the elements that share the node
diag_coeff_unscaled(diag_glob_idx) == One

\* coefficient written on the diagonal entry of a prescribed node
diag_coeff(diag_glob_idx) ==
    LET diag_j == diag_glob_idx % ny
        diag_i == (diag_glob_idx - diag_j) \div ny
        is_corner == (diag_i = 0 \/ diag_i = nx - 1) /\ (diag_j = 0 \/ diag_j = ny - 1)
        is_edge == (diag_i = 0 \/ diag_i = nx - 1 \/ diag_j = 0 \/ diag_j = ny - 1)
                   /\ ~is_corner
        is_interior == ~is_corner /\ ~is_edge
    IN  CASE is_corner -> One
          [] is_edge -> Half
          [] is_interior -> Quarter

\* a mask that marks no row as prescribed
T_set_mask_unset(i_corner) == [p \in 0..(stream_len - 1) |-> FALSE]

\* np.repeat(T_is_set[node_glob_idx[i_corner]], nodes_per_elem)
T_set_mask(i_corner) ==
    [p \in 0..(stream_len - 1) |-> T_is_set[node_glob_idx[i_corner][p \div nodes_per_elem]]]

\* positions of stream i_corner that are the diagonal entry of a prescribed node
T_set_diag(i_corner) ==
    [p \in 0..(stream_len - 1) |->
        T_set_mask(i_corner)[p] /\ (p % nodes_per_elem = i_corner)]

\* no position deleted: the density also scales the diagonal entries
idx_kept_all(i_corner) == Where([p \in 0..(stream_len - 1) |-> TRUE], stream_len)

\* np.delete(..., np.ix_(T_set_diag)[0]): the positions of stream i_corner
\* that stay in idx_density_map and idx_val_map
idx_kept(i_corner) ==
    Where([p \in 0..(stream_len - 1) |-> ~T_set_diag(i_corner)[p]], stream_len)

\* the five arrays built by _preprocess_global_stiffness, flattened
_preprocess_global_stiffness ==
    LET K_loc == _local_stiffness(0, 0)
        m == stream_len
        \* diag_glob_idx: the prescribed nodes met by stream ic, in element order
        diag_glob_idx == Mat([ic \in 0..3 |->
            LET set_elem == Where([e \in 0..(n_elem - 1) |-> T_is_set[node_glob_idx[ic][e]]], n_elem)
            IN  [k \in 1..Len(set_elem) |-> node_glob_idx[ic][set_elem[k]]]])
        \* np.ix_(T_set_diag)[0]
        diag_pos == Mat([ic \in 0..3 |-> Where(T_set_diag(ic), m)])
        val(ic, p) ==
            LET k == IndexOf(diag_pos[ic], p)
            IN  IF k > 0 THEN diag_coeff(diag_glob_idx[ic][k])
                ELSE IF T_set_mask(ic)[p] THEN 0
                ELSE K_loc[ic][p % nodes_per_elem]
        kept == Mat([ic \in 0..3 |-> idx_kept(ic)])
        dmap(ic) == [k \in 1..Len(kept[ic]) |-> kept[ic][k] \div nodes_per_elem]
        vmap(ic) == [k \in 1..Len(kept[ic]) |-> kept[ic][k] + m * ic]
    IN  [K_rows |-> Mat([P \in 0..(4 * m - 1) |-> node_glob_idx[P \div m][(P % m) \div nodes_per_elem]]),
         K_cols |-> Mat([P \in 0..(4 * m - 1) |->
                        node_glob_idx[(P % m) % nodes_per_elem][(P % m) \div nodes_per_elem]]),
         K_vals |-> Mat([P \in 0..(4 * m - 1) |-> val(P \div m, P % m)]),
         idx_density_map |-> dmap(0) \o dmap(1) \o dmap(2) \o dmap(3),
         idx_val_map |-> vmap(0) \o vmap(1) \o vmap(2) \o vmap(3)]

\* sp.coo_matrix((vals, (rows, cols)), shape=(nr, nc)).tocsr(): entry P is
\* added to position (rows[P], cols[P]), so duplicate positions are summed
RECURSIVE coo_fold(_, _, _, _, _, _)
coo_fold(acc, vals, rows, cols, lo, hi) ==
    IF hi <= lo THEN acc
    ELSE coo_fold([acc EXCEPT ![rows[lo]][cols[lo]] = @ + vals[lo]], vals, rows, cols, lo + 1, hi)

\* the entries lo .. hi-1, summed in blocks that are then added
RECURSIVE coo_sum(_, _, _, _, _, _, _)
coo_sum(vals, rows, cols, lo, hi, nr, nc) ==
    IF hi <= lo + 2 * nodes_per_elem
    THEN coo_fold([r \in 0..(nr - 1) |-> [c \in 0..(nc - 1) |-> 0]], vals, rows, cols, lo, hi)
    ELSE LET mid == (lo + hi) \div 2
             L == coo_sum(vals, rows, cols, lo, mid, nr, nc)
             R == coo_sum(vals, rows, cols, mid, hi, nr, nc)
         IN  Mat2([r \in 0..(nr - 1) |-> [c \in 0..(nc - 1) |-> L[r][c] + R[r][c]]])

coo_matrix(vals, rows, cols, len, nr, nc) == coo_sum(vals, rows, cols, 0, len, nr, nc)

\* the entries k in lo..hi of vals[idx_val_map] * density[idx_density_map], by
\* position in vals; a position named twice takes its last product
RECURSIVE scaled(_, _, _, _, _, _)
scaled(vals, d, val_map, density_map, lo, hi) ==
    IF hi < lo THEN <<>>
    ELSE IF hi = lo THEN val_map[lo] :> (vals[val_map[lo]] * d[density_map[lo]])
    ELSE scaled(vals, d, val_map, density_map, (lo + hi) \div 2 + 1, hi)
             @@ scaled(vals, d, val_map, density_map, lo, (lo + hi) \div 2)

\* vals[self.idx_val_map] *= density[self.idx_density_map]
scale_vals(vals, d, val_map, density_map) ==
    scaled(vals, d, val_map, density_map, 1, Len(val_map)) @@ vals

\* the matrix built from the preprocessed arrays pre for the density d
assemble(pre, d) ==
    coo_matrix(scale_vals(pre.K_vals, d, pre.idx_val_map, pre.idx_density_map),
               pre.K_rows, pre.K_cols, 4 * stream_len, n_node, n_node)

\* the matrix that _update_global_stiffness stores in self.K_glob when it
\* rebuilds for the density d
stiffness(d) ==
    assemble([K_rows |-> K_rows, K_cols |-> K_cols, K_vals |-> K_vals,
              idx_density_map |-> idx_density_map, idx_val_map |-> idx_val_map], d)

\* np.all(a != b) in place of np.any
all_differ(a, b) == \A e \in DOMAIN a : a[e] # b[e]

\* np.any(a != b) for arrays of one shape
any_differs(a, b) == \E e \in DOMAIN a : a[e] # b[e]

-----------------------------------------------------------------------------
(* Reference assembly by a loop over the elements (FEM.py) *)

\* self.K_glob[np.ix_(idx_glob, idx_glob)] += self.density[i, j] * K_loc
add_local_stiffness(K, e, d) ==
    LET K_loc == _local_stiffness(0, 0)
        loc(n) == {a \in 0..3 : node_glob_idx[a][e] = n}
    IN  Mat2([n \in DOMAIN K |-> [m \in DOMAIN K[n] |->
            IF loc(n) = {} \/ loc(m) = {} THEN K[n][m]
            ELSE K[n][m] + d[e] * K_loc[CHOOSE a \in loc(n) : TRUE][CHOOSE b \in loc(m) : TRUE]]])

\* the loop over the elements from element k on
RECURSIVE loop_elements(_, _, _)
loop_elements(K, k, d) ==
    IF k = n_elem THEN K ELSE loop_elements(add_local_stiffness(K, k, d), k + 1, d)

\* the matrix that FEM._global_stiffness leaves in self.K_glob for the density d
_global_stiffness(d) ==
    loop_elements([n \in 0..(n_node - 1) |-> [m \in 0..(n_node - 1) |-> 0]], 0, d)

-----------------------------------------------------------------------------
(* Global force vector *)

\* self.F_glob[idx_glob] += self._local_force(i, j, q[i, j]) for the corners
\* idx_glob of element (i, j)
add_local_force(F, i, j) ==
    LET idx_glob == << _flattened_node_ij(i, j), _flattened_node_ij(i + 1, j),
                       _flattened_node_ij(i + 1, j + 1), _flattened_node_ij(i, j + 1) >>
        force == _local_force(i, j, q[i][j])
    IN  Mat([n \in DOMAIN F |->
            F[n] + SumTo([a \in 0..3 |-> IF idx_glob[a + 1] = n THEN force[a] ELSE 0], 4)])

\* the loop over np.argwhere(q != 0), in row-major order, from position k on
RECURSIVE accumulate_force(_, _)
accumulate_force(F, k) ==
    IF k = Rows(q) * Cols(q) THEN F
    ELSE LET i == k \div Cols(q)
             j == k % Cols(q)
         IN  accumulate_force(IF q[i][j] # 0 THEN add_local_force(F, i, j) ELSE F, k + 1)

\* prescribed temperatures added to the accumulated load
_update_global_force_added ==
    LET F == accumulate_force([n \in 0..(n_node - 1) |-> 0], 0)
    IN  Mat([n \in 0..(n_node - 1) |->
            IF isfinite(T_set[n \div ny][n % ny])
            THEN F[n] + T_set[n \div ny][n % ny].val
            ELSE F[n]])

\* the vector that _update_global_force leaves in self.F_glob: the loop over
\* np.argwhere(np.isfinite(T_set)) assigns T_set[i, j] to entry i * ny + j, and
\* the last assignment to an entry is the one that stays
_update_global_force ==
    LET F == accumulate_force([n \in 0..(n_node - 1) |-> 0], 0)
        finite_T_set_idx(n) ==
            {k \in DOMAIN T_is_set :
                T_is_set[k] /\ _flattened_node_ij(k \div Cols(T_set), k % Cols(T_set)) = n}
    IN  Mat([n \in 0..(n_node - 1) |->
            LET S == finite_T_set_idx(n)
            IN  IF S = {} THEN F[n]
                ELSE LET k == CHOOSE k1 \in S : \A k2 \in S : k2 <= k1
                     IN  T_set[k \div Cols(T_set)][k % Cols(T_set)].val])

\* FEM.set_element_heat (FEM.py): the loop over every element, from the
\* flattened element index k on
RECURSIVE loop_element_heat(_, _)
loop_element_heat(F, k) ==
    IF k = (nx - 1) * (ny - 1) THEN F
    ELSE loop_element_heat(add_local_force(F, k \div (ny - 1), k % (ny - 1)), k + 1)

\* the vector that set_element_heat(q) leaves in self.F_glob
set_element_heat == loop_element_heat([n \in 0..(n_node - 1) |-> 0], 0)

-----------------------------------------------------------------------------
(* Preprocessing of partial(R)/partial(density) *)

\* K_loc left in counterclockwise order
idx_reorder_K_ccw == <<0, 1, 2, 3>>

\* K_loc is reordered from counterclockwise to lower left, upper left,
\* lower right, upper right
idx_reorder_K == <<0, 3, 1, 2>>

\* global indices of the corners of each element in that order
nodal_glob_idx ==
    [c \in 0..3 |-> [e \in 0..(n_elem - 1) |->
        CASE c = 0 -> elem_i(e) * ny + elem_j(e)
          [] c = 1 -> elem_i(e) * ny + elem_j(e) + 1
          [] c = 2 -> (elem_i(e) + 1) * ny + elem_j(e)
          [] c = 3 -> (elem_i(e) + 1) * ny + elem_j(e) + 1]]

\* no row removed
idx_to_remove_none(coeff_mat_rows, len) == [t \in 0..(len - 1) |-> FALSE]

\* np.in1d(coeff_mat_rows, idx_where_T_is_set) for the len row indices
idx_to_remove(coeff_mat_rows, len) ==
    [t \in 0..(len - 1) |-> T_is_set[coeff_mat_rows[t]]]

\* a[idx] for a sequence idx of positions, as an array from 0
take(a, idx) == Mat([k \in 0..(Len(idx) - 1) |-> a[idx[k + 1]]])

\* the members built by _preprocess_pRpx
_preprocess_pRpx ==
    LET K0 == _local_stiffness(0, 0)
        K_loc == [a \in 0..3 |-> [b \in 0..3 |-> K0[idx_reorder_K[a + 1]][idx_reorder_K[b + 1]]]]
        len == n_elem * nodes_per_elem * nodes_per_elem
        \* np.repeat(nodal_glob_idx.T, nodes_per_elem)
        coeff_mat_rows == [t \in 0..(len - 1) |-> nodal_glob_idx[(t % 16) \div 4][t \div 16]]
        coeff_mat_cols == [t \in 0..(len - 1) |-> (t % 4) + 4 * (t \div 16)]
        coeff_mat_vals == [t \in 0..(len - 1) |-> K_loc[(t % 16) \div 4][t % 4]]
        removed == Mat(idx_to_remove(coeff_mat_rows, len))
        \* np.delete with a boolean mask removes the masked positions
        keep == Where([t \in 0..(len - 1) |-> ~removed[t]], len)
        rows == take(coeff_mat_rows, keep)
        cols == take(coeff_mat_cols, keep)
        vals == take(coeff_mat_vals, keep)
    IN  [pRpx_coeff_mat |-> coo_matrix(vals, rows, cols, Len(keep),
                                       n_node, n_elem * nodes_per_elem),
         pRpx_temp_idx |-> [c \in 0..(n_elem * nodes_per_elem - 1) |->
                               nodal_glob_idx[c % nodes_per_elem][c \div nodes_per_elem]]]

pRpx_temp_rows == [c \in 0..(n_elem * nodes_per_elem - 1) |-> c]
pRpx_temp_cols == [c \in 0..(n_elem * nodes_per_elem - 1) |-> c \div nodes_per_elem]

\* A.dot(B) for A with shape nr x nk and B with shape nk x nc
dot(A, B, nr, nk, nc) ==
    [r \in 0..(nr - 1) |-> [c \in 0..(nc - 1) |->
        SumTo([k \in 0..(nk - 1) |-> A[r][k] * B[k][c]], nk)]]

\* the matrix that linearize stores in self.pRpx for the temperatures temp
partial_density(temp) ==
    LET nk == n_elem * nodes_per_elem
        pRpx_temp_mat == coo_matrix([c \in 0..(nk - 1) |-> temp[pRpx_temp_idx[c]]],
                                    pRpx_temp_rows, pRpx_temp_cols, nk, nk, n_elem)
    IN  Mat2(dot(pRpx_coeff_mat, pRpx_temp_mat, n_node, nk, n_elem))

-----------------------------------------------------------------------------
(* Direct sparse solve *)

Abs(x) == IF x < 0 THEN -x ELSE x

RECURSIVE GCD(_, _)
GCD(a, b) == IF b = 0 THEN Abs(a) ELSE GCD(b, a % Abs(b))

\* the fraction n/d in lowest terms with a positive denominator
Frac(n, d) ==
    LET g == GCD(n, d)
        sgn == IF d < 0 THEN -1 ELSE 1
    IN  <<(sgn * n) \div g, (sgn * d) \div g>>

RECURSIVE RowGCD(_, _)
RowGCD(row, n) == IF n = 0 THEN 0 ELSE GCD(row[n - 1], RowGCD(row, n - 1))

\* a row of the augmented system divided by the gcd of its entries
NormRow(row, n) ==
    LET g == RowGCD(row, n)
    IN  IF g = 0 THEN row ELSE Mat([c \in 0..(n - 1) |-> row[c] \div g])

\* Gauss-Jordan elimination of the n x (n+1) augmented system A from column k
RECURSIVE eliminate(_, _, _)
eliminate(A, k, n) ==
    IF k = n THEN [sing |-> FALSE, A |-> A]
    ELSE LET cand == {i \in k..(n - 1) : A[i][k] # 0}
         IN  IF cand = {} THEN [sing |-> TRUE, A |-> A]
             ELSE LET p == CHOOSE i \in cand : \A i2 \in cand : i <= i2
                      swapped == [A EXCEPT ![k] = A[p], ![p] = A[k]]
                      piv == swapped[k]
                  IN  eliminate(
                        Mat([i \in 0..(n - 1) |->
                            IF i = k THEN piv
                            ELSE NormRow(Mat([c \in 0..n |->
                                     piv[k] * swapped[i][c] - swapped[i][k] * piv[c]]), n + 1)]),
                        k + 1, n)

\* no solve: the right-hand side is returned as the solution
spsolve_returns_rhs(A, b, n) ==
    [sing |-> FALSE, x |-> [i \in 0..(n - 1) |-> <<b[i], 1>>]]

\* spsolve(A, b) for a matrix A held in quarters and a vector b of whole
\* numbers: the exact solution x of A x = b as fractions <<num, den>>, or
\* sing when A is singular and no solution is produced
spsolve(A, b, n) ==
    LET aug == Mat([i \in 0..(n - 1) |->
                   NormRow(Mat([c \in 0..n |-> IF c < n THEN A[i][c] ELSE One * b[i]]), n + 1)])
        res == eliminate(aug, 0, n)
    IN  IF res.sing THEN [sing |-> TRUE, x |-> <<>>]
        ELSE [sing |-> FALSE,
              x |-> [i \in 0..(n - 1) |-> Frac(res.A[i][n], res.A[i][i])]]

\* a solution whose entries are all whole numbers, as a vector of integers
IsWhole(x) == \A i \in DOMAIN x : x[i][2] = 1
Whole(x) == [i \in DOMAIN x |-> x[i][1]]

-----------------------------------------------------------------------------
(* Input domains *)

\* the subsets of S with at most k elements
RECURSIVE KSubsets(_, _)
KSubsets(S, k) ==
    IF k = 0 THEN {{}}
    ELSE LET smaller == KSubsets(S, k - 1)
         IN  smaller \cup {T \cup {x} : T \in smaller, x \in S}

\* density vectors: uniform ones, and all ones except one element
UniformDensities == {[e \in 0..(n_elem - 1) |-> c] : c \in 0..MaxDensity}
VariedDensities(E) ==
    {[e \in 0..(n_elem - 1) |-> IF e = e0 THEN c ELSE 1] : e0 \in E, c \in 0..MaxDensity}
Densities == UniformDensities \cup VariedDensities(0..(n_elem - 1))
\* the smaller set used where calls are chained
LifeDensities == UniformDensities \cup VariedDensities({n_elem - 1})
\* and the one used with the derivative operators
LinDensities == VariedDensities({n_elem - 1})

\* temperature vectors: all zero, all one, and the ramp T[n] = n
Temps == {[n \in 0..(n_node - 1) |-> c * n + c0] : c \in 0..1, c0 \in 0..1} \
            {[n \in 0..(n_node - 1) |-> n + 1]}
LifeTemps == {[n \in 0..(n_node - 1) |-> c * n] : c \in 0..1}
UnitVecs(n) == {[i \in 0..(n - 1) |-> IF i = k THEN 1 ELSE 0] : k \in 0..(n - 1)}

\* an option array of shape a x b from a flat vector
Reshape(v, a, b) == [i \in 0..(a - 1) |-> [j \in 0..(b - 1) |-> v[i * b + j]]]

\* T_set arrays of shape a x b with at most maxset finite entries, all 3
TSetChoices(a, b, maxset) ==
    {Reshape([n \in 0..(a * b - 1) |-> IF n \in S THEN Finite(3) ELSE Unset], a, b) :
        S \in KSubsets(0..(a * b - 1), maxset)}

\* q arrays of shape a x b: no heat, or heat 4 in one element of E
QChoices(a, b, E) ==
    {Reshape([e \in 0..(a * b - 1) |-> IF e \in S THEN 4 ELSE 0], a, b) :
        S \in {{}} \cup {{e} : e \in E}}

-----------------------------------------------------------------------------
(* The component *)

Null == <<>>

\* a rebuild that stores the matrix and not the density
_update_global_stiffness_keeps_density(self_density, self_K_glob, pre, d) ==
    IF ~any_differs(self_density, d)
    THEN [density |-> self_density, K_glob |-> self_K_glob]
    ELSE [density |-> self_density, K_glob |-> assemble(pre, d)]

\* _update_global_stiffness(density) on a component whose cached density and
\* matrix are self_density and self_K_glob: the members after the call; pre
\* holds the arrays of _preprocess_global_stiffness
_update_global_stiffness(self_density, self_K_glob, pre, d) ==
    IF ~any_differs(self_density, d)
    THEN [density |-> self_density, K_glob |-> self_K_glob]
    ELSE [density |-> d, K_glob |-> assemble(pre, d)]

\* the preprocessed arrays as the members hold them
self_pre ==
    [K_rows |-> K_rows, K_cols |-> K_cols, K_vals |-> K_vals,
     idx_density_map |-> idx_density_map, idx_val_map |-> idx_val_map]

\* the component after construction: the options are declared and no member
\* is computed yet
members_unset ==
    /\ K_rows = Null
    /\ K_cols = Null
    /\ K_vals = Null
    /\ idx_density_map = Null
    /\ idx_val_map = Null
    /\ pRpx_coeff_mat = Null
    /\ pRpx_temp_idx = Null
    /\ density = Null
    /\ K_glob = Null
    /\ F_glob = Null
    /\ pRpu = Null
    /\ pRpx = Null
    /\ call = [op |-> "__init__"]

\* no trail is being searched and no session is running
collection_absent ==
    /\ flightDetails = Null
    /\ isDeparture = Null
    /\ session = Null
    /\ flightNumbers = Null
    /\ allFlights = Null
    /\ saved = Null

constructed == members_unset /\ collection_absent

\* no component of utils.py is part of the problem
utilities_absent ==
    /\ filter_r = Null
    /\ weight_mtx = Null
    /\ step = Null
    /\ penalty = Null
    /\ node_idx = Null
    /\ avg_temp = Null
    /\ avg_jacobian = Null

\* the framework calls setup once, before every other method
is_set_up == call.op # "__init__"

\* the index errors that setup can raise on the option arrays:
\* T_is_set[node_glob_idx[i_corner]] (line 357) when T_set has fewer entries
\* than the mesh has nodes, mesh_x[i + 1, j + 1] in _local_force for an element
\* (i, j) of q with heat that is outside the mesh, and
\* self.F_glob[self._flattened_node_ij(i, j)] (line 287) for a finite entry
\* of T_set whose flattened index is outside F_glob
setup_raises_IndexError ==
    \/ Rows(T_set) * Cols(T_set) < n_node
    \/ \E i \in DOMAIN q : \E j \in DOMAIN q[i] :
          q[i][j] # 0 /\ (i + 1 > nx - 1 \/ j + 1 > ny - 1)
    \/ \E i \in DOMAIN T_set : \E j \in DOMAIN T_set[i] :
          isfinite(T_set[i][j]) /\ _flattened_node_ij(i, j) >= n_node

\* setup left by the exception: the component is not set up
setup_raises ==
    /\ ~is_set_up
    /\ setup_raises_IndexError
    /\ call' = [op |-> "__init__", raised |-> "IndexError"]
    /\ UNCHANGED <<collection, utilities, options, preprocessed, density, K_glob, F_glob, pRpu, pRpx>>

\* the members that setup computes from the options
setup ==
    /\ ~is_set_up
    /\ ~setup_raises_IndexError
    /\ UNCHANGED <<collection, utilities, options>>
    /\ LET pre == _preprocess_global_stiffness
       IN  /\ K_rows' = pre.K_rows
           /\ K_cols' = pre.K_cols
           /\ K_vals' = pre.K_vals
           /\ idx_density_map' = pre.idx_density_map
           /\ idx_val_map' = pre.idx_val_map
           /\ LET upd == _update_global_stiffness([e \in 0..(n_elem - 1) |-> 0], Null, pre,
                                                  [e \in 0..(n_elem - 1) |-> 1])
              IN  /\ density' = upd.density
                  /\ K_glob' = upd.K_glob
    /\ LET pre == _preprocess_pRpx
       IN  /\ pRpx_coeff_mat' = pre.pRpx_coeff_mat
           /\ pRpx_temp_idx' = Mat(pre.pRpx_temp_idx)
    /\ F_glob' = _update_global_force
    /\ UNCHANGED <<pRpu, pRpx>>
    /\ call' = [op |-> "setup"]

\* residuals["temp"] = K_glob @ temp - F_glob, in quarters
residual(K, temp, F) ==
    LET Kt == MatVec(K, temp, n_node, n_node)
    IN  Mat([n \in 0..(n_node - 1) |-> Kt[n] - One * F[n]])

\* apply_nonlinear that also stores the rebuilt matrix as pRpu
apply_nonlinear_stores_pRpu(d, temp) ==
    LET upd == _update_global_stiffness(density, K_glob, self_pre, d)
    IN  /\ is_set_up
        /\ density' = upd.density
        /\ K_glob' = upd.K_glob
        /\ pRpu' = IF pRpu = Null THEN pRpu ELSE upd.K_glob
        /\ call' = [op |-> "apply_nonlinear", density |-> d, temp |-> temp,
                    residuals |-> residual(upd.K_glob, temp, F_glob)]
        /\ UNCHANGED <<collection, utilities, options, preprocessed, F_glob, pRpx>>

apply_nonlinear(d, temp) ==
    LET upd == _update_global_stiffness(density, K_glob, self_pre, d)
    IN  /\ is_set_up
        /\ density' = upd.density
        /\ K_glob' = upd.K_glob
        /\ call' = [op |-> "apply_nonlinear", density |-> d, temp |-> temp,
                    residuals |-> residual(upd.K_glob, temp, F_glob)]
        /\ UNCHANGED <<collection, utilities, options, preprocessed, F_glob, pRpu, pRpx>>

solve_nonlinear(d) ==
    LET upd == _update_global_stiffness(density, K_glob, self_pre, d)
        sol == spsolve(upd.K_glob, F_glob, n_node)
    IN  /\ is_set_up
        /\ density' = upd.density
        /\ K_glob' = upd.K_glob
        /\ call' = [op |-> "solve_nonlinear", density |-> d, sing |-> sol.sing,
                    temp |-> sol.x]
        /\ UNCHANGED <<collection, utilities, options, preprocessed, F_glob, pRpu, pRpx>>

\* a linearize that stores the cached matrix without updating it for d
linearize_cached_stiffness(d, temp) ==
    /\ is_set_up
    /\ pRpu' = K_glob
    /\ pRpx' = partial_density(temp)
    /\ call' = [op |-> "linearize", density |-> d, temp |-> temp]
    /\ UNCHANGED <<collection, utilities, options, preprocessed, density, K_glob, F_glob>>

linearize(d, temp) ==
    LET upd == _update_global_stiffness(density, K_glob, self_pre, d)
    IN  /\ is_set_up
        /\ density' = upd.density
        /\ K_glob' = upd.K_glob
        /\ pRpu' = upd.K_glob
        /\ pRpx' = partial_density(temp)
        /\ call' = [op |-> "linearize", density |-> d, temp |-> temp]
        /\ UNCHANGED <<collection, utilities, options, preprocessed, F_glob>>

\* the product stored in place of the sum
AddMatVec_overwrites(a, Mx) == Mx

\* a += M @ x, in quarters, for an accumulator a of whole numbers
AddMatVec(a, Mx) == Mat([i \in DOMAIN a |-> One * a[i] + Mx[i]])
Quarters(a) == IF a = Null THEN Null ELSE Mat([i \in DOMAIN a |-> One * a[i]])

\* apply_linear; a block that is not present in a vector is Null.  The
\* results are the three vectors after the call, in quarters.
apply_linear_vectors(d_inputs, d_outputs, d_residuals, mode) ==
    LET ne == n_elem
        nn == n_node
        fwd1 == IF d_outputs # Null
                THEN AddMatVec(d_residuals, MatVec(pRpu, d_outputs, nn, nn))
                ELSE Quarters(d_residuals)
        fwd2 == IF d_inputs # Null
                THEN Mat([n \in 0..(nn - 1) |-> fwd1[n] + MatVec(pRpx, d_inputs, nn, ne)[n]])
                ELSE fwd1
    IN  IF d_residuals = Null
        THEN [d_inputs |-> Quarters(d_inputs), d_outputs |-> Quarters(d_outputs),
              d_residuals |-> Null]
        ELSE IF mode = "fwd"
        THEN [d_inputs |-> Quarters(d_inputs), d_outputs |-> Quarters(d_outputs),
              d_residuals |-> fwd2]
        ELSE [d_inputs |-> IF d_inputs # Null
                           THEN AddMatVec(d_inputs, MatTVec(pRpx, d_residuals, nn, ne))
                           ELSE Null,
              d_outputs |-> IF d_outputs # Null
                            THEN AddMatVec(d_outputs, MatTVec(pRpu, d_residuals, nn, nn))
                            ELSE Null,
              d_residuals |-> Quarters(d_residuals)]

apply_linear(d_inputs, d_outputs, d_residuals, mode) ==
    /\ pRpu # Null
    /\ call' = [op |-> "apply_linear", mode |-> mode,
                d_inputs |-> d_inputs, d_outputs |-> d_outputs,
                d_residuals |-> d_residuals,
                after |-> apply_linear_vectors(d_inputs, d_outputs, d_residuals, mode)]
    /\ UNCHANGED <<collection, utilities, options, preprocessed, density, K_glob, F_glob, pRpu, pRpx>>

\* solve_linear: fwd reads d_residuals and writes d_outputs, rev reads
\* d_outputs and writes d_residuals; rhs is the vector read
solve_linear(rhs, mode) ==
    /\ pRpu # Null
    /\ LET sol == spsolve(pRpu, rhs, n_node)
       IN  call' = [op |-> "solve_linear", mode |-> mode, rhs |-> rhs,
                    sing |-> sol.sing, x |-> sol.x]
    /\ UNCHANGED <<collection, utilities, options, preprocessed, density, K_glob, F_glob, pRpu, pRpx>>

-----------------------------------------------------------------------------
(* Exact fractions <<num, den>> *)

FAdd(a, b) == Frac(a[1] * b[2] + b[1] * a[2], a[2] * b[2])
FSub(a, b) == Frac(a[1] * b[2] - b[1] * a[2], a[2] * b[2])
FMul(a, b) == Frac(a[1] * b[1], a[2] * b[2])
FDiv(a, b) == Frac(a[1] * b[2], a[2] * b[1])
FLess(a, b) == a[1] * b[2] < b[1] * a[2]
FLeq(a, b) == a[1] * b[2] <= b[1] * a[2]
FInt(k) == <<k, 1>>
\* int(np.ceil(a))
Ceil(a) == -((-a[1]) \div a[2])
Max(a, b) == IF a < b THEN b ELSE a
Min(a, b) == IF a < b THEN a ELSE b

\* the sum of the fractions f[0] .. f[n-1]
RECURSIVE FSumTo(_, _)
FSumTo(f, n) == IF n = 0 THEN FInt(0) ELSE FAdd(FSumTo(f, n - 1), f[n - 1])

-----------------------------------------------------------------------------
(* LinearDensityFilter (utils.py) *)

x_spacing == Frac(x_lim[2] - x_lim[1], nx - 1)
y_spacing == Frac(y_lim[2] - y_lim[1], ny - 1)
r_idx_x == Ceil(FDiv(filter_r, x_spacing))
r_idx_y == Ceil(FDiv(filter_r, y_spacing))

\* the box searched towards higher indices only
neighbor_list_forward(idx, r_idx, num) == idx..Min(num - 2, idx + r_idx)

\* np.arange(max(0, idx - r_idx), min(num - 2, idx + r_idx) + 1)
neighbor_list(idx, r_idx, num) == Max(0, idx - r_idx)..Min(num - 2, idx + r_idx)

\* the weight with the distance measured from the corner of element i
wj_from_corner(idx_x, idx_y, jx, jy) ==
    LET xi == FMul(FInt(idx_x), x_spacing)
        yi == FMul(FInt(idx_y), y_spacing)
        xj == FMul(Frac(2 * jx + 1, 2), x_spacing)
        yj == FMul(Frac(2 * jy + 1, 2), y_spacing)
        dist2 == FAdd(FMul(FSub(xj, xi), FSub(xj, xi)), FMul(FSub(yj, yi), FSub(yj, yi)))
        r2 == FMul(filter_r, filter_r)
    IN  IF r2[1] = 0 THEN <<IF dist2[1] = 0 THEN 0 ELSE -1, 0>>
        ELSE FSub(FInt(1), FDiv(dist2, r2))

\* wj = 1 - ((xj - xi) ** 2 + (yj - yi) ** 2) / r**2 for the element
\* (jx, jy) seen from the element (idx_x, idx_y).  With r = 0 the division
\* gives nan (0/0) or inf, written here with denominator 0; no comparison
\* with it is true.
wj(idx_x, idx_y, jx, jy) ==
    LET xi == FMul(Frac(2 * idx_x + 1, 2), x_spacing)
        yi == FMul(Frac(2 * idx_y + 1, 2), y_spacing)
        xj == FMul(Frac(2 * jx + 1, 2), x_spacing)
        yj == FMul(Frac(2 * jy + 1, 2), y_spacing)
        dist2 == FAdd(FMul(FSub(xj, xi), FSub(xj, xi)), FMul(FSub(yj, yi), FSub(yj, yi)))
        r2 == FMul(filter_r, filter_r)
    IN  IF r2[1] = 0 THEN <<IF dist2[1] = 0 THEN 0 ELSE -1, 0>>
        ELSE FSub(FInt(1), FDiv(dist2, r2))

\* the elements of the box with a negative weight are kept too
idx_nonzero_keeps_negative(w) == w[2] # 0

\* idx_nonzero = wj > 0.0
idx_nonzero(w) == w[2] # 0 /\ FLess(FInt(0), w)

\* col_idx: the elements of the box searched around the element (idx_x, idx_y)
in_box(idx_x, idx_y, col) ==
    /\ (col \div (ny - 1)) \in neighbor_list(idx_x, r_idx_x, nx)
    /\ (col % (ny - 1)) \in neighbor_list(idx_y, r_idx_y, ny)

\* the weights before normalisation, by element
wj_row(idx_x, idx_y) ==
    [col \in 0..(n_elem - 1) |-> wj(idx_x, idx_y, col \div (ny - 1), col % (ny - 1))]

\* cols_i = col_idx[idx_nonzero]
cols_i(idx_x, idx_y) ==
    {col \in 0..(n_elem - 1) :
        in_box(idx_x, idx_y, col) /\ idx_nonzero(wj_row(idx_x, idx_y)[col])}

\* np.sum(wj) of the weights that are kept
wj_sum(idx_x, idx_y) ==
    LET w == wj_row(idx_x, idx_y)
        kept == cols_i(idx_x, idx_y)
    IN  FSumTo([col \in 0..(n_elem - 1) |-> IF col \in kept THEN w[col] ELSE FInt(0)], n_elem)

\* row row_idx of the weight matrix: the weights of the elements of the box
\* that are kept, divided by their sum; every other entry is zero
weight_row(idx_x, idx_y) ==
    LET w == wj_row(idx_x, idx_y)
        kept == cols_i(idx_x, idx_y)
        total == wj_sum(idx_x, idx_y)
    IN  [col \in 0..(n_elem - 1) |-> IF col \in kept THEN FDiv(w[col], total) ELSE FInt(0)]

LinearDensityFilter_setup ==
    /\ filter_r # Null
    /\ weight_mtx = Null
    /\ weight_mtx' = [row_idx \in 0..(n_elem - 1) |->
                        weight_row(row_idx \div (ny - 1), row_idx % (ny - 1))]
    /\ call' = [op |-> "LinearDensityFilter.setup"]
    /\ UNCHANGED <<collection, options, preprocessed, density, K_glob, F_glob, pRpu, pRpx, filter_r, step,
                   penalty, node_idx,
                   avg_temp, avg_jacobian>>

\* outputs["density_filtered"] = self.weight_mtx @ inputs["density"]
LinearDensityFilter_compute(d) ==
    /\ weight_mtx # Null
    /\ call' = [op |-> "LinearDensityFilter.compute", density |-> d,
                density_filtered |->
                    [row \in 0..(n_elem - 1) |->
                        FSumTo([col \in 0..(n_elem - 1) |->
                                   FMul(weight_mtx[row][col], FInt(d[col]))], n_elem)]]
    /\ UNCHANGED <<collection, options, preprocessed, density, K_glob, F_glob, pRpu, pRpx, utilities>>

\* the radii: the multiples of 1/2 from -1 to MaxR
Radii == {Frac(k, 2) : k \in (-2)..(2 * MaxR)}

\* a mesh without a FEM component on it
mesh_only ==
    /\ nx \in 2..MaxNum
    /\ ny \in 2..MaxNum
    /\ x_lim = <<0, nx - 1>>
    /\ y_lim = <<0, 2 * (ny - 1)>>
    /\ T_set = Null
    /\ q = Null
    /\ constructed

InitFilter ==
    /\ mesh_only
    /\ filter_r \in Radii
    /\ weight_mtx = Null
    /\ step = Null
    /\ penalty = Null
    /\ node_idx = Null
    /\ avg_temp = Null
    /\ avg_jacobian = Null

NextFilter ==
    \/ LinearDensityFilter_setup
    \/ \E d \in Densities : LinearDensityFilter_compute(d)

SpecFilter == InitFilter /\ [][NextFilter]_vars

-----------------------------------------------------------------------------
(* Mass (utils.py) *)

\* the sum that leaves out the first entry
np_sum_skips_first(a) == SumIn(a, 1, Cardinality(DOMAIN a))

\* np.sum of a flat array
np_sum(a) == SumTo(a, Cardinality(DOMAIN a))

\* the partial derivatives declared in setup: d mass / d density[e], constant
Mass_partials == [e \in 0..(n_elem - 1) |-> 1]

\* compute; the record keeps the output together with the declared Jacobian
Mass_compute(d) ==
    /\ call' = [op |-> "Mass.compute", density |-> d,
                mass |-> np_sum(d), partials |-> Mass_partials]
    /\ UNCHANGED <<collection, options, preprocessed, density, K_glob, F_glob, pRpu, pRpx, utilities>>

\* every density vector with entries 0..MaxDensity
AllDensities == [0..(n_elem - 1) -> 0..MaxDensity]

InitMass ==
    /\ mesh_only
    /\ utilities_absent

NextMass == \E d \in AllDensities : Mass_compute(d)

SpecMass == InitMass /\ [][NextMass]_vars

-----------------------------------------------------------------------------
(* SmoothStep (utils.py) *)
(* The options and the input hold whole numbers: x_min, x_max and the      *)
(* entries of the input are in quarters (0.25 is 1, 0.75 is 3), y_min and  *)
(* y_max in thousandths (1e-3 is 1, 1.0 is 1000).  The output is an exact  *)
(* fraction of thousandths, a partial derivative an exact fraction of      *)
(* thousandths per quarter.                                                *)

\* a ** k for an integer k >= 0
RECURSIVE FPow(_, _)
FPow(a, k) == IF k = 0 THEN FInt(1) ELSE FMul(a, FPow(a, k - 1))

\* the selection that never takes the replacement value
np_where_never(cond, a, b) == b

\* np.where(cond, a, b) for one entry
np_where(cond, a, b) == IF cond THEN a ELSE b

\* (inputs["in"] - x_min) / (x_max - x_min) for one entry
x_scaled(x) == Frac(x - step.x_min, step.x_max - step.x_min)

\* compute for one entry
SmoothStep_out(x) ==
    LET xs == x_scaled(x)
        y_scaled == FDiv(FPow(xs, step.n),
                         FAdd(FPow(xs, step.n), FPow(FSub(FInt(1), xs), step.n)))
        y_low == np_where(FLess(xs, FInt(0)), FInt(0), y_scaled)
        y_clipped == np_where(FLess(FInt(1), xs), FInt(1), y_low)
    IN  FAdd(FInt(step.y_min), FMul(FInt(step.y_max - step.y_min), y_clipped))

\* compute_partials for one entry
SmoothStep_dYdX(x) ==
    LET xs == x_scaled(x)
        den == FAdd(FPow(xs, step.n), FPow(FSub(FInt(1), xs), step.n))
        dYdX_scaled == FDiv(FMul(FMul(FInt(step.n), FPow(xs, step.n - 1)),
                                 FPow(FSub(FInt(1), xs), step.n - 1)),
                            FMul(den, den))
        d_low == np_where(FLess(xs, FInt(0)), FInt(0), dYdX_scaled)
        d_clipped == np_where(FLess(FInt(1), xs), FInt(0), d_low)
    IN  FDiv(FMul(d_clipped, FInt(step.y_max - step.y_min)),
             FInt(step.x_max - step.x_min))

\* setup: the size and the rows and columns of the declared partials
SmoothStep_setup ==
    /\ step.inds = Null
    /\ step' = [step EXCEPT !.size = n_elem, !.inds = [k \in 0..(n_elem - 1) |-> k]]
    /\ call' = [op |-> "SmoothStep.setup"]
    /\ UNCHANGED <<collection, options, preprocessed, density, K_glob, F_glob, pRpu, pRpx,
                   filter_r, weight_mtx, penalty, node_idx,
                   avg_temp, avg_jacobian>>

SmoothStep_compute(in) ==
    /\ step.inds # Null
    /\ call' = [op |-> "SmoothStep.compute", in |-> in,
                out |-> [k \in DOMAIN in |-> SmoothStep_out(in[k])]]
    /\ UNCHANGED <<collection, options, preprocessed, density, K_glob, F_glob, pRpu, pRpx, utilities>>

\* the values are those of the entries (rows[k], cols[k]) declared in setup
SmoothStep_compute_partials(in) ==
    /\ step.inds # Null
    /\ call' = [op |-> "SmoothStep.compute_partials", in |-> in,
                rows |-> step.inds, cols |-> step.inds,
                partials |-> [k \in DOMAIN in |-> SmoothStep_dYdX(in[k])]]
    /\ UNCHANGED <<collection, options, preprocessed, density, K_glob, F_glob, pRpu, pRpx, utilities>>

\* the options supplied: the order, the band (0.25, 0.75) or (0, 1), the
\* range (1e-3, 1) or (0, 1)
StepOptions ==
    [n : 1..MaxOrder, x_min : {0, 1}, x_max : {3, 4}, y_min : {0, 1}, y_max : {1000},
     size : {Null}, inds : {Null}]

\* the values an entry of the input takes: the band and one quarter on each side
StepValues == (step.x_min - 1)..(step.x_max + 1)

\* input vectors: uniform ones, and uniform ones with one entry changed
StepInputs ==
    {[e \in 0..(n_elem - 1) |-> IF e = e0 THEN a ELSE b] :
        e0 \in 0..(n_elem - 1), a \in StepValues, b \in StepValues}

InitStep ==
    /\ mesh_only
    /\ filter_r = Null
    /\ weight_mtx = Null
    /\ penalty = Null
    /\ node_idx = Null
    /\ avg_temp = Null
    /\ avg_jacobian = Null
    /\ step \in {o \in StepOptions : o.x_min + o.x_max = 4}

NextStep ==
    \/ SmoothStep_setup
    \/ \E in \in StepInputs : SmoothStep_compute(in)
    \/ \E in \in StepInputs : SmoothStep_compute_partials(in)

SpecStep == InitStep /\ [][NextStep]_vars

-----------------------------------------------------------------------------
(* PenalizeDensity (utils.py) *)
(* The penalty factor p is a float holding a whole number; a density is an *)
(* exact fraction.                                                         *)

\* the penalty applied as a factor instead of an exponent
penalized_as_factor(x) == FMul(FInt(penalty), x)

\* inputs["density"] ** self.options["p"] for one entry
penalized(x) == FPow(x, penalty)

\* self.options["p"] * inputs["density"] ** (self.options["p"] - 1) for one entry
penalized_partial(x) == FMul(FInt(penalty), FPow(x, penalty - 1))

\* np.arange(n_elem): the rows and the columns of the partials declared in setup
arng == [k \in 0..(n_elem - 1) |-> k]

PenalizeDensity_compute(d) ==
    /\ call' = [op |-> "PenalizeDensity.compute", density |-> d,
                density_penalized |-> [e \in DOMAIN d |-> penalized(d[e])]]
    /\ UNCHANGED <<collection, options, preprocessed, density, K_glob, F_glob, pRpu, pRpx, utilities>>

\* the values are those of the entries (rows[k], cols[k]) declared in setup
PenalizeDensity_compute_partials(d) ==
    /\ call' = [op |-> "PenalizeDensity.compute_partials", density |-> d,
                rows |-> arng, cols |-> arng,
                jacobian |-> [e \in DOMAIN d |-> penalized_partial(d[e])]]
    /\ UNCHANGED <<collection, options, preprocessed, density, K_glob, F_glob, pRpu, pRpx, utilities>>

\* the values an entry of the density takes: 0, 1/4, ..., 1 and 5/4
DensityValues == {Frac(k, One) : k \in 0..(One + 1)}

\* density vectors: uniform ones, and uniform ones with one entry changed
FractionalDensities ==
    {[e \in 0..(n_elem - 1) |-> IF e = e0 THEN a ELSE b] :
        e0 \in 0..(n_elem - 1), a \in DensityValues, b \in DensityValues}

InitPenalize ==
    /\ mesh_only
    /\ filter_r = Null
    /\ weight_mtx = Null
    /\ step = Null
    /\ node_idx = Null
    /\ avg_temp = Null
    /\ avg_jacobian = Null
    /\ penalty \in 1..MaxP

NextPenalize ==
    \/ \E d \in FractionalDensities : PenalizeDensity_compute(d)
    \/ \E d \in FractionalDensities : PenalizeDensity_compute_partials(d)

SpecPenalize == InitPenalize /\ [][NextPenalize]_vars

-----------------------------------------------------------------------------
(* AvgTemp (utils.py) *)
(* A float is an exact fraction, or NonFinite for nan and the infinities:   *)
(* a sum or a product with a NonFinite operand is NonFinite, also the      *)
(* product with 0.                                                         *)

NonFinite == <<0, 0>>
fl_add(a, b) == IF a[2] = 0 \/ b[2] = 0 THEN NonFinite ELSE FAdd(a, b)
fl_mul(a, b) == IF a[2] = 0 \/ b[2] = 0 THEN NonFinite ELSE FMul(a, b)

\* a whole-number vector as floats
Floats(v) == [k \in DOMAIN v |-> FInt(v[k])]

\* np.array([i * ny + j, i * ny + j + 1, (i + 1) * ny + j, (i + 1) * ny + j + 1])
\* for the flattened meshgrid i, j of the elements
AvgTemp_node_idx ==
    LET i(e) == e \div (ny - 1)
        j(e) == e % (ny - 1)
    IN  << [e \in 0..(n_elem - 1) |-> i(e) * ny + j(e)],
           [e \in 0..(n_elem - 1) |-> i(e) * ny + j(e) + 1],
           [e \in 0..(n_elem - 1) |-> (i(e) + 1) * ny + j(e)],
           [e \in 0..(n_elem - 1) |-> (i(e) + 1) * ny + j(e) + 1] >>

\* setup; the framework creates the output with its default value 1.0 and
\* the values of the declared partials as zeros
AvgTemp_setup ==
    /\ node_idx = Null
    /\ node_idx' = AvgTemp_node_idx
    /\ avg_temp' = [e \in 0..(n_elem - 1) |-> FInt(1)]
    /\ avg_jacobian' = [density |-> [e \in 0..(n_elem - 1) |-> FInt(0)],
                        temp |-> [k \in 0..(4 * n_elem - 1) |-> FInt(0)]]
    /\ call' = [op |-> "AvgTemp.setup"]
    /\ UNCHANGED <<collection, options, preprocessed, density, K_glob, F_glob, pRpu, pRpx,
                   filter_r, weight_mtx, step, penalty>>

\* acc += temp[idx] for each of the rows idx of node_idx from row k on
RECURSIVE add_rows(_, _, _, _)
add_rows(acc, temp, scale, k) ==
    IF k > 4 THEN acc
    ELSE add_rows([e \in DOMAIN acc |-> fl_add(acc[e], fl_mul(temp[node_idx[k][e]], scale))],
                  temp, scale, k + 1)

\* compute: outputs["avg_temp"] *= 0.0, += temp[idx] for each row, *= density / 4
AvgTemp_compute(d, temp) ==
    /\ node_idx # Null
    /\ LET zeroed == [e \in DOMAIN avg_temp |-> fl_mul(avg_temp[e], FInt(0))]
           summed == add_rows(zeroed, temp, FInt(1), 1)
       IN  avg_temp' = [e \in DOMAIN avg_temp |-> fl_mul(summed[e], FDiv(d[e], FInt(4)))]
    /\ call' = [op |-> "AvgTemp.compute", density |-> d, temp |-> temp]
    /\ UNCHANGED <<collection, options, preprocessed, density, K_glob, F_glob, pRpu, pRpx,
                   filter_r, weight_mtx, step, penalty, node_idx, avg_jacobian>>

\* compute_partials; rows and cols are those declared in setup for the
\* partials with respect to temp: np.repeat(np.arange(n_elem), 4) and
\* self.node_idx.T.flatten()
AvgTemp_compute_partials(d, temp) ==
    /\ node_idx # Null
    /\ LET J == avg_jacobian
           zeroed == [e \in DOMAIN J.density |-> fl_mul(J.density[e], FInt(0))]
           zeroed_temp == [k \in DOMAIN J.temp |-> fl_mul(J.temp[k], FInt(0))]
       IN  avg_jacobian' =
               [density |-> add_rows(zeroed, temp, Frac(1, 4), 1),
                temp |-> [k \in DOMAIN J.temp |->
                             fl_add(zeroed_temp[k], FDiv(d[k \div 4], FInt(4)))]]
    /\ call' = [op |-> "AvgTemp.compute_partials", density |-> d, temp |-> temp,
                rows |-> [k \in 0..(4 * n_elem - 1) |-> k \div 4],
                cols |-> [k \in 0..(4 * n_elem - 1) |-> node_idx[(k % 4) + 1][k \div 4]]]
    /\ UNCHANGED <<collection, options, preprocessed, density, K_glob, F_glob, pRpu, pRpx,
                   filter_r, weight_mtx, step, penalty, node_idx, avg_temp>>

\* temperature vectors: those of the component's calls and, as a singular
\* solve returns, a vector of nan
AvgTemps ==
    {Floats(temp) : temp \in Temps} \cup {[n \in 0..(n_node - 1) |-> NonFinite]}

InitAvg ==
    /\ mesh_only
    /\ filter_r = Null
    /\ weight_mtx = Null
    /\ step = Null
    /\ penalty = Null
    /\ node_idx = Null
    /\ avg_temp = Null
    /\ avg_jacobian = Null

NextAvg ==
    \/ AvgTemp_setup
    \/ \E d \in LifeDensities, temp \in AvgTemps : AvgTemp_compute(Floats(d), temp)
    \/ \E d \in LifeDensities, temp \in AvgTemps : AvgTemp_compute_partials(Floats(d), temp)

SpecAvg == InitAvg /\ [][NextAvg]_vars

-----------------------------------------------------------------------------
(* Airport.findBetterExit (dataCollection/airports/Airport.py) *)
(* Coordinates and speeds are whole numbers.  A returned exit code j is the *)
(* sequence <<j>>, and None is the empty sequence.                         *)

None == <<>>

\* the exit boxes (lng1, lng2, lat1, lat2) of the airport of the checks: the
\* first two overlap, the third lies apart
exitLocations == << <<0, 4, 0, 4>>, <<2, 6, 0, 4>>, <<8, 10, 0, 4>> >>
nExits == Len(exitLocations)

\* np.flipud of a sequence
RECURSIVE np_flipud(_)
np_flipud(s) == IF s = <<>> THEN <<>> ELSE np_flipud(Tail(s)) \o <<Head(s)>>

\* extractTrail (plotting/plotUtils.py): the rows [lng, lat], alt and spd
extractTrail(details) ==
    [latlong |-> [i \in 1..Len(details.trail) |->
                     <<details.trail[i].lng, details.trail[i].lat>>],
     alt |-> [i \in 1..Len(details.trail) |-> details.trail[i].alt],
     speed |-> [i \in 1..Len(details.trail) |-> details.trail[i].spd]]

\* the exits whose box holds the point, bounds excluded
exits_at(point) ==
    {j \in 0..(nExits - 1) :
        /\ exitLocations[j + 1][1] < point[1] /\ point[1] < exitLocations[j + 1][2]
        /\ exitLocations[j + 1][3] < point[2] /\ point[2] < exitLocations[j + 1][4]}

\* the loop over the points from position i on: the first point slower than
\* 80 that lies in an exit box returns the lowest such exit
RECURSIVE search_trail(_, _, _)
search_trail(latlong, speed, i) ==
    IF i > Len(latlong) THEN None
    ELSE IF speed[i] < 80 /\ exits_at(latlong[i]) # {}
    THEN <<CHOOSE j \in exits_at(latlong[i]) : \A k \in exits_at(latlong[i]) : j <= k>>
    ELSE search_trail(latlong, speed, i + 1)

findBetterExit(details, departure) ==
    LET ex == extractTrail(details)
        latlong == IF ~departure THEN np_flipud(ex.latlong) ELSE ex.latlong
        speed == IF ~departure THEN np_flipud(ex.speed) ELSE ex.speed
    IN  search_trail(latlong, speed, 1)

\* countTotals (actualData/countExits.py): the call made for one file
find_better_exit ==
    /\ flightDetails # Null
    /\ call' = [op |-> "findBetterExit",
                exitCode |-> findBetterExit(flightDetails, isDeparture)]
    /\ UNCHANGED <<collection, options, preprocessed, density, K_glob, F_glob, pRpu, pRpx,
                   utilities>>

\* trail points: in the first box, in both, in the second, between the boxes,
\* in the third, and on the edge of the first; slow and fast
TrailPoints ==
    {[lng |-> c[1], lat |-> c[2], alt |-> 0, spd |-> s] :
        c \in {<<1, 2>>, <<3, 2>>, <<5, 2>>, <<7, 2>>, <<9, 2>>, <<1, 4>>}, s \in {70, 80}}

\* the trails of at most MaxTrail points
RECURSIVE Trails(_)
Trails(k) ==
    IF k = 0 THEN {<<>>}
    ELSE Trails(k - 1) \cup
         {Append(s, pt) : s \in {s0 \in Trails(k - 1) : Len(s0) = k - 1}, pt \in TrailPoints}

\* no finite element component exists
no_component ==
    /\ nx = Null
    /\ ny = Null
    /\ x_lim = Null
    /\ y_lim = Null
    /\ T_set = Null
    /\ q = Null
    /\ members_unset
    /\ utilities_absent

InitExit ==
    /\ no_component
    /\ flightDetails \in {[trail |-> s] : s \in Trails(MaxTrail)}
    /\ isDeparture \in BOOLEAN
    /\ session = Null
    /\ flightNumbers = Null
    /\ allFlights = Null
    /\ saved = Null

NextExit == find_better_exit

SpecExit == InitExit /\ [][NextExit]_vars

-----------------------------------------------------------------------------
(* catchDepartures and catchArrivals (dataCollection/actualData/catchFlights.py) *)
(* Coordinates are in ten-thousandths of a degree.  session holds the       *)
(* function that runs, the number of refresh cycles begun and the position  *)
(* in the loop; saved is the list of the files written, in order.           *)

\* the airport of the session
code == "SAN"
centerLoc == <<-1171916, 327340>>
\* atol of flightAtAirport and the default rtol of np.allclose, as 1 / rtol
atol == 1000
inv_rtol == 100000

\* np.allclose(a, b, atol): |a - b| <= atol + rtol * |b| in every entry
np_allclose(a, b) ==
    \A i \in DOMAIN a : inv_rtol * Abs(a[i] - b[i]) <= inv_rtol * atol + Abs(b[i])

flightAtAirport(flight) == np_allclose(centerLoc, <<flight.longitude, flight.latitude>>)

\* the test on a flight already caught that lets every flight through
is_new_always(flight) == TRUE

\* flight.number not in flightNumbers
is_new(flight) == \A i \in 1..Len(flightNumbers) : flightNumbers[i] # flight.number

\* flightIDString: the folder of the file, "debug" when the route was lost
flightIDString(flight) ==
    IF flight.origin_airport_iata = "N/A" \/ flight.destination_airport_iata = "N/A"
    THEN "debug"
    ELSE IF flight.origin_airport_iata = code THEN "departures" ELSE "arrivals"

\* the condition under which catchDepartures saves a flight
departure_caught(flight) ==
    /\ is_new(flight)
    /\ flight.origin_airport_iata = code
    /\ \/ flight.on_ground = 0
       \/ flight.on_ground = 1 /\ ~flightAtAirport(flight)

\* the condition under which catchArrivals asks for the exit of a flight
arrival_landed(flight) ==
    /\ is_new(flight)
    /\ flight.destination_airport_iata = code
    /\ flight.on_ground = 1
    /\ flightAtAirport(flight)

\* findExitForTrail (airports/Airport.py): reads flightDetails["trail"] and
\* unpacks the three values of extractTrail into two names; the loop over
\* the exits and the points comes after.  The outcome of a call is the
\* exception raised or the value returned.
raised(ex) == [raised |-> ex]
returned(value) == [value |-> value]
findExitForTrail(details) ==
    IF "trail" \notin DOMAIN details THEN raised("TypeError")
    ELSE IF Cardinality(DOMAIN extractTrail(details)) # 2 THEN raised("ValueError")
    ELSE LET latlong == extractTrail(details).latlong
             hit == {j \in 0..(nExits - 1) : \E i \in DOMAIN latlong : j \in exits_at(latlong[i])}
         IN  returned(IF hit = {} THEN None
                      ELSE <<CHOOSE j \in hit : \A k \in hit : j <= k>>)

\* the position after the flight at the head of allFlights: the next flight,
\* or the next refresh cycle at the end of the list
next_flight ==
    /\ allFlights' = Tail(allFlights)
    /\ session' = IF Tail(allFlights) = <<>> THEN [session EXCEPT !.pc = "refresh"] ELSE session

\* except Exception: the rest of the list is left out
except_continue ==
    /\ allFlights' = <<>>
    /\ session' = [session EXCEPT !.pc = "refresh"]

\* saveFlightInfo: get_flight_details may raise, then nothing is written;
\* the dump may raise, then the file is open and not complete
saveFlightInfo(flight) ==
    \E outcome \in {"saved", "api raises", "dump raises"} :
        IF outcome = "api raises"
        THEN saved' = saved /\ except_continue
        ELSE /\ saved' = Append(saved, [flight |-> flight, folder |-> flightIDString(flight),
                                        by |-> session.op, complete |-> outcome = "saved"])
             /\ IF outcome = "saved" THEN next_flight ELSE except_continue

frame_session ==
    UNCHANGED <<flightDetails, isDeparture, options, preprocessed, density, K_glob, F_glob,
                pRpu, pRpx, call, utilities>>

\* fr_api.get_flights returns a list
get_flights(flights) ==
    /\ session # Null
    /\ session.pc = "refresh"
    /\ session.cycle < MaxCycles
    /\ allFlights' = flights
    /\ session' = [session EXCEPT !.cycle = @ + 1,
                                  !.pc = IF flights = <<>> THEN "refresh" ELSE "loop"]
    /\ UNCHANGED <<flightNumbers, saved>>
    /\ frame_session

\* fr_api.get_flights raises
get_flights_raises ==
    /\ session # Null
    /\ session.pc = "refresh"
    /\ session.cycle < MaxCycles
    /\ session' = [session EXCEPT !.cycle = @ + 1]
    /\ UNCHANGED <<allFlights, flightNumbers, saved>>
    /\ frame_session

\* one pass of the loop of catchDepartures over allFlights
catchDepartures_flight ==
    /\ session # Null
    /\ session.op = "catchDepartures"
    /\ session.pc = "loop"
    /\ LET flight == Head(allFlights)
       IN  IF departure_caught(flight)
           THEN /\ flightNumbers' = Append(flightNumbers, flight.number)
                /\ saveFlightInfo(flight)
           ELSE /\ next_flight
                /\ UNCHANGED <<flightNumbers, saved>>
    /\ frame_session

\* one pass of the loop of catchArrivals over allFlights
catchArrivals_flight ==
    /\ session # Null
    /\ session.op = "catchArrivals"
    /\ session.pc = "loop"
    /\ LET flight == Head(allFlights)
       IN  IF arrival_landed(flight)
           THEN \E details \in {[trail |-> s] : s \in Trails(1)} \cup {raised("api")} :
                  IF "raised" \in DOMAIN details
                  THEN except_continue /\ UNCHANGED <<flightNumbers, saved>>
                  ELSE LET trail == extractTrail(details)
                           exitCode == findExitForTrail(trail)
                       IN  IF "raised" \in DOMAIN exitCode
                           THEN except_continue /\ UNCHANGED <<flightNumbers, saved>>
                           ELSE IF exitCode.value # None
                           THEN /\ flightNumbers' = Append(flightNumbers, flight.number)
                                /\ saveFlightInfo(flight)
                           ELSE next_flight /\ UNCHANGED <<flightNumbers, saved>>
           ELSE /\ next_flight
                /\ UNCHANGED <<flightNumbers, saved>>
    /\ frame_session

\* time.time() has reached endTime at the top of the while loop
end_of_session ==
    /\ session # Null
    /\ session.pc = "refresh"
    /\ session' = [session EXCEPT !.pc = "done"]
    /\ UNCHANGED <<allFlights, flightNumbers, saved>>
    /\ frame_session

\* the flights the API reports: two numbers; a departure, an arrival and a
\* departure whose destination was lost; in the air and on the ground; at the
\* center of the airport, 0.101 degree west of it (inside the tolerance with
\* its relative part) and 0.1005 degree north of it (outside)
Flights ==
    [number : {"AA1", "UA2"},
     route : {<<code, "LAX">>, <<"LAX", code>>, <<code, "N/A">>},
     on_ground : {0, 1},
     position : {centerLoc, <<centerLoc[1] - 1010, centerLoc[2]>>,
                 <<centerLoc[1], centerLoc[2] + 1005>>}]

Flight(f) ==
    [number |-> f.number, origin_airport_iata |-> f.route[1],
     destination_airport_iata |-> f.route[2], on_ground |-> f.on_ground,
     longitude |-> f.position[1], latitude |-> f.position[2]]

\* the lists of at most MaxFlights flights
RECURSIVE FlightLists(_)
FlightLists(k) ==
    IF k = 0 THEN {<<>>}
    ELSE FlightLists(k - 1) \cup
         {Append(s, Flight(f)) : s \in {s0 \in FlightLists(k - 1) : Len(s0) = k - 1}, f \in Flights}

InitCatch ==
    /\ no_component
    /\ flightDetails = Null
    /\ isDeparture = Null
    /\ session \in {[op |-> o, cycle |-> 0, pc |-> "refresh"] :
                      o \in {"catchDepartures", "catchArrivals"}}
    /\ flightNumbers = <<>>
    /\ allFlights = <<>>
    /\ saved = <<>>

NextCatch ==
    \/ \E flights \in FlightLists(MaxFlights) : get_flights(flights)
    \/ get_flights_raises
    \/ catchDepartures_flight
    \/ catchArrivals_flight
    \/ end_of_session

SpecCatch == InitCatch /\ [][NextCatch]_vars

-----------------------------------------------------------------------------
(* Specification of the call sequences that rebuild the stiffness matrix *)

Init ==
    /\ nx = 2
    /\ ny \in 2..3
    /\ x_lim = <<0, nx - 1>>
    /\ y_lim = <<0, 2 * (ny - 1)>>
    /\ T_set \in TSetChoices(nx, ny, 1)
    /\ q \in QChoices(nx - 1, ny - 1, {0})
    /\ constructed
    /\ utilities_absent

Next ==
    \/ setup
    \/ \E d \in LifeDensities, temp \in LifeTemps : apply_nonlinear(d, temp)
    \/ \E d \in LifeDensities : solve_nonlinear(d)
    \/ \E d \in LifeDensities, temp \in LifeTemps : linearize(d, temp)

Spec == Init /\ [][Next]_vars

-----------------------------------------------------------------------------
(* The same call sequences when a rebuild can stop part-way *)

\* _update_global_stiffness called directly with an array d of length 1 on a
\* mesh of several elements: the comparison and the copy of line 252
\* broadcast d, and density[self.idx_density_map] of line 255 raises
\* IndexError before self.K_glob is assigned
_update_global_stiffness_raises(d) ==
    /\ is_set_up
    /\ Len(d) = 1
    /\ \E k \in DOMAIN idx_density_map : idx_density_map[k] >= Len(d)
    /\ \E e \in DOMAIN density : density[e] # d[1]
    /\ density' = [e \in DOMAIN density |-> d[1]]
    /\ call' = [op |-> "_update_global_stiffness", density |-> d, raised |-> "IndexError"]
    /\ UNCHANGED <<collection, utilities, options, preprocessed, K_glob, F_glob, pRpu, pRpx>>

NextFail ==
    \/ setup
    \/ \E d \in UniformDensities, temp \in {[n \in 0..(n_node - 1) |-> n]} :
          apply_nonlinear(d, temp)
    \/ \E d \in UniformDensities : solve_nonlinear(d)
    \/ \E d \in UniformDensities, temp \in {[n \in 0..(n_node - 1) |-> n]} :
          linearize(d, temp)
    \/ \E c \in 0..MaxDensity : _update_global_stiffness_raises(<<c>>)

SpecFail == Init /\ [][NextFail]_vars

-----------------------------------------------------------------------------
(* Specification of the derivative operators *)

InitLin ==
    /\ nx = 2
    /\ ny = 3
    /\ x_lim = <<0, nx - 1>>
    /\ y_lim = <<0, 2 * (ny - 1)>>
    /\ T_set \in TSetChoices(nx, ny, 1)
    /\ q = Reshape([e \in 0..(n_elem - 1) |-> 0], nx - 1, ny - 1)
    /\ constructed
    /\ utilities_absent

NextLin ==
    \/ setup
    \/ \E d \in LinDensities, temp \in LifeTemps : apply_nonlinear(d, temp)
    \/ \E d \in LinDensities : solve_nonlinear(d)
    \/ \E d \in LinDensities, temp \in LifeTemps : linearize(d, temp)
    \/ \E mode \in {"fwd", "rev"}, has \in SUBSET {"i", "o", "r"} :
          apply_linear(IF "i" \in has THEN [e \in 0..(n_elem - 1) |-> 1] ELSE Null,
                       IF "o" \in has THEN [n \in 0..(n_node - 1) |-> n] ELSE Null,
                       IF "r" \in has THEN [n \in 0..(n_node - 1) |-> 1 + n] ELSE Null,
                       mode)
    \/ \E rhs \in {[n \in 0..(n_node - 1) |-> 1], [n \in 0..(n_node - 1) |-> n]},
          mode \in {"fwd", "rev"} : solve_linear(rhs, mode)

SpecLin == InitLin /\ [][NextLin]_vars

-----------------------------------------------------------------------------
(* Specification of the assembly: one call on every small mesh *)

InitAsm ==
    /\ nx \in 2..MaxNum
    /\ ny \in 2..MaxNum
    /\ x_lim = <<0, nx - 1>>
    /\ y_lim = <<0, 2 * (ny - 1)>>
    /\ T_set \in TSetChoices(nx, ny, MaxSet)
    /\ q = Reshape([e \in 0..(n_elem - 1) |-> 0], nx - 1, ny - 1)
    /\ constructed
    /\ utilities_absent

\* a direct call of _update_global_stiffness
update_global_stiffness(d) ==
    LET upd == _update_global_stiffness(density, K_glob, self_pre, d)
    IN  /\ is_set_up
        /\ density' = upd.density
        /\ K_glob' = upd.K_glob
        /\ call' = [op |-> "_update_global_stiffness", density |-> d]
        /\ UNCHANGED <<collection, utilities, options, preprocessed, F_glob, pRpu, pRpx>>

NextAsm ==
    \/ setup
    \/ /\ call.op = "setup"
       /\ \/ \E d \in Densities : update_global_stiffness(d)
          \/ \E d \in LifeDensities, temp \in Temps : linearize(d, temp)

SpecAsm == InitAsm /\ [][NextAsm]_vars

-----------------------------------------------------------------------------
(* Specification of the force vector: heat in up to two elements *)

\* q arrays with heat a in one element and heat b in another
HeatChoices ==
    {Reshape([e \in 0..(n_elem - 1) |-> IF e = e1 THEN a ELSE IF e = e2 THEN b ELSE 0],
             nx - 1, ny - 1) :
        e1 \in 0..(n_elem - 1), e2 \in 0..(n_elem - 1), a \in {0, 2, 4}, b \in {0, 2, 4}}

InitForce ==
    /\ nx \in 2..MaxNum
    /\ ny \in 2..MaxNum
    /\ x_lim = <<0, nx - 1>>
    /\ y_lim = <<0, 2 * (ny - 1)>>
    /\ T_set \in TSetChoices(nx, ny, MaxSet)
    /\ q \in HeatChoices
    /\ constructed
    /\ utilities_absent

\* a direct call of _update_global_force
update_global_force ==
    /\ is_set_up
    /\ F_glob' = _update_global_force
    /\ call' = [op |-> "_update_global_force"]
    /\ UNCHANGED <<collection, utilities, options, preprocessed, density, K_glob, pRpu, pRpx>>

NextForce ==
    \/ setup
    \/ update_global_force

SpecForce == InitForce /\ [][NextForce]_vars

-----------------------------------------------------------------------------
(* Specification of setup with option arrays of any shape *)

\* option arrays with up to one row or column more or less than the mesh
InitShape ==
    /\ nx = 2
    /\ ny \in 2..3
    /\ x_lim = <<0, nx - 1>>
    /\ y_lim = <<0, 2 * (ny - 1)>>
    /\ \E a \in (nx - 1)..(nx + 1), b \in (ny - 1)..(ny + 1) :
          T_set \in TSetChoices(a, b, 1)
    /\ \E a \in 1..nx, b \in 1..ny :
          q \in QChoices(a, b, 0..(a * b - 1))
    /\ constructed
    /\ utilities_absent

NextShape ==
    \/ setup
    \/ setup_raises
    \/ \E d \in UniformDensities : solve_nonlinear(d)

SpecShape == InitShape /\ [][NextShape]_vars

-----------------------------------------------------------------------------
(* Properties *)

nodes == 0..(n_node - 1)
elems == 0..(n_elem - 1)
\* node n is a corner of element e
is_corner_of(n, e) == \E c \in 0..3 : node_glob_idx[c][e] = n
public_ops == {"apply_nonlinear", "solve_nonlinear", "linearize"}
ones == [e \in elems |-> 1]

\* C1: in every state after setup, whatever calls were made and with whatever
\* densities, the row of K_glob of every node with a prescribed temperature
\* is 1 on the diagonal and 0 in every other column.
C1_DirichletRowsAreUnit ==
    is_set_up =>
        \A n \in nodes : T_is_set[n] =>
            \A m \in nodes : K_glob[n][m] = (IF m = n THEN One ELSE 0)

\* a prescribed node all of whose elements have density 0, next to an element
\* of another density, after a call that rebuilt the matrix
C1_Witness ==
    /\ call.op \in public_ops
    /\ \E n \in nodes :
          /\ T_is_set[n]
          /\ \A e \in elems : is_corner_of(n, e) => density[e] = 0
          /\ \E e \in elems : density[e] # 0

\* C2: in every state after setup F_glob holds the prescribed temperature at
\* every prescribed node, also next to heated elements, and no call changes
\* F_glob after setup.
C2_ForceHoldsPrescribedTemperature ==
    /\ [](is_set_up =>
            \A n \in nodes : T_is_set[n] => F_glob[n] = T_set[n \div ny][n % ny].val)
    /\ [][is_set_up => F_glob' = F_glob]_vars

\* a prescribed node that is a corner of a heated element, after a call
C2_Witness ==
    /\ call.op \in public_ops
    /\ \E n \in nodes, e \in elems :
          /\ T_is_set[n]
          /\ is_corner_of(n, e)
          /\ q[elem_i(e)][elem_j(e)] # 0
          /\ _local_force(elem_i(e), elem_j(e), q[elem_i(e)][elem_j(e)])[0] # 0

\* C3: for every prescribed node n, the entries of the stream at (n, n) are one
\* per element that has n as a corner, each holds the coefficient of n, and
\* their sum is exactly 1.
C3_DiagonalCoefficientsSumToOne ==
    is_set_up =>
        \A n \in nodes : T_is_set[n] =>
            LET dup == {P \in DOMAIN K_rows : K_rows[P] = n /\ K_cols[P] = n}
            IN  /\ Cardinality(dup) = Cardinality({e \in elems : is_corner_of(n, e)})
                /\ \A P \in dup : K_vals[P] = diag_coeff(n)
                /\ Cardinality(dup) * diag_coeff(n) = One

\* a mesh one element thick with a prescribed node on the boundary that is
\* shared by two elements
C3_Witness ==
    /\ is_set_up
    /\ nx = 2 \/ ny = 2
    /\ \E n \in nodes :
          T_is_set[n] /\ Cardinality({e \in elems : is_corner_of(n, e)}) = 2

\* C4: after setup and after every completed call the cached density is the
\* density of the last call (all ones after setup) and K_glob is the matrix
\* assembled from it.
C4_StiffnessIsOfLastDensity ==
    is_set_up =>
        /\ density = (IF call.op = "setup" THEN ones ELSE call.density)
        /\ K_glob = stiffness(density)

\* a call with the all-zero density, whose matrix differs from the one of setup
C4_Witness ==
    /\ call.op \in public_ops
    /\ \A e \in elems : call.density[e] = 0
    /\ K_glob # stiffness(ones)

\* C5: a call whose density equals the cached one element by element leaves
\* the cached density and K_glob as they are; a call whose density differs in
\* some element stores that density and the matrix assembled from it.
C5_UpdateFrame ==
    [][(is_set_up /\ call'.op \in public_ops) =>
          IF \A e \in elems : density[e] = call'.density[e]
          THEN density' = density /\ K_glob' = K_glob
          ELSE density' = call'.density /\ K_glob' = stiffness(call'.density)]_vars

\* a call that replaced a cached density other than the one of setup
C5_Witness ==
    /\ call.op \in public_ops
    /\ density = call.density
    /\ \E e \in elems : density[e] # 1
    /\ K_glob = stiffness(call.density)
    /\ K_glob # stiffness(ones)

\* C6: the cached density and K_glob change together: in no state after setup,
\* also after a rebuild that raised, is K_glob the matrix of another density
\* than the cached one.
C6_CacheIsAtomic == is_set_up => K_glob = stiffness(density)

\* C7: every row of K_glob of a node without prescribed temperature equals that
\* row of the assembly by the loop over the elements, columns of prescribed
\* nodes included; for a single element K_glob is K_loc permuted by [0, 2, 3, 1].
C7_RowsEqualElementLoop ==
    is_set_up =>
        /\ LET ref == _global_stiffness(density)
           IN  \A n \in nodes : ~T_is_set[n] =>
                   \A m \in nodes : K_glob[n][m] = ref[n][m]
        /\ (n_elem = 1 /\ \A n \in nodes : ~T_is_set[n]) =>
               LET K_loc == _local_stiffness(0, 0)
                   idx_glob == <<0, 2, 3, 1>>
               IN  \A a, b \in 0..3 :
                       K_glob[idx_glob[a + 1]][idx_glob[b + 1]] = density[0] * K_loc[a][b]

\* a rebuild with element densities that differ, where a row without
\* prescribed temperature has an entry in the column of a prescribed node
C7_Witness ==
    /\ call.op = "_update_global_stiffness"
    /\ \E e1, e2 \in elems : density[e1] # density[e2]
    /\ \E n, m \in nodes : ~T_is_set[n] /\ T_is_set[m] /\ K_glob[n][m] # 0

\* the least common multiple of the denominators of x[0] .. x[n-1]
RECURSIVE common_den(_, _)
common_den(x, n) ==
    IF n = 0 THEN 1
    ELSE LET L == common_den(x, n - 1)
         IN  (L * x[n - 1][2]) \div GCD(L, x[n - 1][2])

\* C8: solve_linear in mode 'rev' returns y with K^T y = d_outputs for the
\* matrix K stored by the last linearize.
C8_RevSolvesTranspose ==
    (call.op = "solve_linear" /\ call.mode = "rev" /\ ~call.sing) =>
        LET L == common_den(call.x, n_node)
            y == [i \in nodes |-> call.x[i][1] * (L \div call.x[i][2])]
        IN  \A j \in nodes :
                SumTo([i \in nodes |-> pRpu[i][j] * y[i]], n_node) = One * call.rhs[j] * L

\* the residual of apply_nonlinear at density d and temperatures temp
R(d, temp) == residual(stiffness(d), temp, F_glob)

\* C9: after linearize(d, T), for every element e, scalar delta and vector v,
\* R(d + delta 1_e, T) - R(d, T) = delta pRpx[:, e] and
\* R(d, T + v) - R(d, T) = pRpu v, and pRpx[n, e] is the sum over the corners b
\* of e of K_loc[loc_e(n), b] T[node_b(e)] for every corner n of e without
\* prescribed temperature.
C9_OperatorsAreResidualDifferences ==
    call.op = "linearize" =>
        LET d == call.density
            T == call.temp
            R0 == R(d, T)
            K_loc == _local_stiffness(0, 0)
        IN  /\ \A e \in elems, delta \in {-1, 1, 2} :
                   LET R1 == R([d EXCEPT ![e] = @ + delta], T)
                   IN  \A n \in nodes : R1[n] - R0[n] = delta * pRpx[n][e]
            /\ \A v \in UnitVecs(n_node) \cup {[n \in nodes |-> n + 1]} :
                   LET R1 == R(d, [n \in nodes |-> T[n] + v[n]])
                       Kv == MatVec(pRpu, v, n_node, n_node)
                   IN  \A n \in nodes : R1[n] - R0[n] = Kv[n]
            /\ \A e \in elems, a \in 0..3 :
                   ~T_is_set[node_glob_idx[a][e]] =>
                       pRpx[node_glob_idx[a][e]][e] =
                           SumTo([b \in 0..3 |-> K_loc[a][b] * T[node_glob_idx[b][e]]], 4)

\* linearize on a mesh of several elements with a prescribed node, element
\* densities that differ, and a nonzero entry of pRpx
C9_Witness ==
    /\ call.op = "linearize"
    /\ n_elem > 1
    /\ \E n \in nodes : T_is_set[n]
    /\ \E e1, e2 \in elems : call.density[e1] # call.density[e2]
    /\ \E n \in nodes, e \in elems : pRpx[n][e] # 0

\* C10: after linearize every row of pRpx of a prescribed node is zero, and so
\* is every entry pRpx[n, e] with n not a corner of e.
C10_MaskedEntriesAreZero ==
    call.op = "linearize" =>
        /\ \A n \in nodes : T_is_set[n] => \A e \in elems : pRpx[n][e] = 0
        /\ \A n \in nodes, e \in elems : ~is_corner_of(n, e) => pRpx[n][e] = 0

\* linearize where a prescribed node is a corner of an element whose
\* temperatures would give it a nonzero entry, and some node is no corner of
\* some element
C10_Witness ==
    /\ call.op = "linearize"
    /\ \E e \in elems, a \in 0..3 :
          /\ T_is_set[node_glob_idx[a][e]]
          /\ SumTo([b \in 0..3 |->
                 _local_stiffness(0, 0)[a][b] * call.temp[node_glob_idx[b][e]]], 4) # 0
    /\ \E n \in nodes, e \in elems : ~is_corner_of(n, e) /\ call.temp[n] # 0

\* C11: after linearize(d, T) the operator pRpu is K_glob, the matrix assembled
\* for d, whatever density the calls before it used; apply_linear,
\* solve_linear and the other calls leave pRpu as linearize stored it.
C11_LinearizeStoresStiffness ==
    /\ [](call.op = "linearize" => pRpu = K_glob /\ pRpu = stiffness(call.density))
    /\ [][call'.op # "linearize" => pRpu' = pRpu]_vars

\* linearize at a density whose matrix is not the one that setup cached
C11_Witness ==
    /\ call.op = "linearize"
    /\ \E e \in elems : call.density[e] # 1
    /\ pRpu = stiffness(call.density)
    /\ pRpu # stiffness(ones)

\* no element generates heat
no_heat == \A e \in elems : q[elem_i(e)][elem_j(e)] = 0
\* the nodes with a prescribed temperature
set_nodes == {n \in nodes : T_is_set[n]}

\* C12: with no heat and one prescribed node at value V, for every density
\* with all entries positive the uniform field T[n] = V has zero residual, and
\* it is the field that solve_nonlinear returns.
C12_UniformFieldIsSolution ==
    (is_set_up /\ no_heat /\ Cardinality(set_nodes) = 1
       /\ \A e \in elems : density[e] > 0) =>
        LET n0 == CHOOSE n \in set_nodes : TRUE
            V == T_set[n0 \div ny][n0 % ny].val
            uniform == [n \in nodes |-> V]
        IN  /\ \A n \in nodes : residual(K_glob, uniform, F_glob)[n] = 0
            /\ call.op = "solve_nonlinear" =>
                   /\ ~call.sing
                   /\ \A n \in nodes : call.temp[n] = <<V, 1>>

\* a solve with a non-uniform positive density on a mesh of two elements, no
\* heat and one prescribed node of nonzero value
C12_Witness ==
    /\ call.op = "solve_nonlinear"
    /\ no_heat
    /\ Cardinality(set_nodes) = 1
    /\ n_elem > 1
    /\ \A e \in elems : density[e] > 0
    /\ \E e1, e2 \in elems : density[e1] # density[e2]
    /\ \A n \in nodes : call.temp[n] = <<3, 1>>

\* C13: the temperature that one solve_nonlinear call produces makes the
\* residual of apply_nonlinear at the same density zero in every row, and it is
\* the result of one linear solve with K_glob and F_glob.  The residual
\* expression is evaluated at L times the solution, L the common denominator
\* of its entries, and L times F_glob.
C13_SolveZeroesResidual ==
    (call.op = "solve_nonlinear" /\ ~call.sing) =>
        LET L == common_den(call.temp, n_node)
            temp == [n \in nodes |-> call.temp[n][1] * (L \div call.temp[n][2])]
            F == [n \in nodes |-> L * F_glob[n]]
        IN  /\ K_glob = stiffness(call.density)
            /\ \A n \in nodes : residual(K_glob, temp, F)[n] = 0
            /\ call.temp = spsolve(K_glob, F_glob, n_node).x

\* a solve with heat in an element and a non-uniform density, whose
\* temperatures are not all whole numbers and not all equal
C13_Witness ==
    /\ call.op = "solve_nonlinear"
    /\ ~call.sing
    /\ ~no_heat
    /\ \E e1, e2 \in elems : call.density[e1] # call.density[e2]
    /\ \E n \in nodes : call.temp[n][2] # 1
    /\ \E n1, n2 \in nodes : call.temp[n1] # call.temp[n2]

\* the inner product of two vectors on the index set S
inner(a, b, S) == SumTo([k \in 0..(Cardinality(S) - 1) |-> a[k] * b[k]], Cardinality(S))

\* C14: from zeroed accumulators, apply_linear in mode fwd gives
\* pRpu u + pRpx v in d_residuals, in mode rev it gives pRpu^T w in d_outputs
\* and pRpx^T w in d_inputs, and <w, fwd(u, v)> = <rev_temp(w), u> +
\* <rev_density(w), v> for the vectors u, v, w.
C14_ApplyLinearModesAreTransposes ==
    call.op \in {"linearize", "apply_linear"} =>
        LET zero_n == [n \in nodes |-> 0]
            zero_e == [e \in elems |-> 0]
        IN  \A u \in UnitVecs(n_node) \cup {[n \in nodes |-> n]},
               v \in UnitVecs(n_elem) \cup {[e \in elems |-> 1]},
               w \in UnitVecs(n_node) \cup {[n \in nodes |-> 1 + n]} :
                LET fwd == apply_linear_vectors(v, u, zero_n, "fwd").d_residuals
                    rev == apply_linear_vectors(zero_e, zero_n, w, "rev")
                IN  /\ \A n \in nodes :
                           fwd[n] = SumTo([m \in nodes |-> pRpu[n][m] * u[m]], n_node)
                                    + SumTo([e \in elems |-> pRpx[n][e] * v[e]], n_elem)
                    /\ \A m \in nodes :
                           rev.d_outputs[m] = SumTo([n \in nodes |-> pRpu[n][m] * w[n]], n_node)
                    /\ \A e \in elems :
                           rev.d_inputs[e] = SumTo([n \in nodes |-> pRpx[n][e] * w[n]], n_node)
                    /\ inner(w, fwd, nodes) = inner(rev.d_outputs, u, nodes)
                                              + inner(rev.d_inputs, v, elems)

\* apply_linear in mode rev with all three vectors present, an operator pRpu
\* that is not symmetric and an operator pRpx that is not zero
C14_Witness ==
    /\ call.op = "apply_linear"
    /\ call.mode = "rev"
    /\ call.d_inputs # Null /\ call.d_outputs # Null /\ call.d_residuals # Null
    /\ \E n, m \in nodes : pRpu[n][m] # pRpu[m][n]
    /\ \E n \in nodes, e \in elems : pRpx[n][e] # 0
    /\ call.after.d_inputs # Quarters(call.d_inputs)

\* C15: a component whose T_set has no finite entry is rejected by setup: it
\* is never set up, and no stiffness matrix is assembled for it.
C15_NoPrescribedNodeIsRejected ==
    set_nodes = {} => (~is_set_up /\ K_glob = Null)

\* C16: setup rejects a T_set whose shape is not (num_x, num_y) and a q whose
\* shape is not (num_x - 1, num_y - 1): no component with such an array is
\* set up.
C16_MismatchedShapesAreRejected ==
    is_set_up =>
        /\ Rows(T_set) = nx /\ Cols(T_set) = ny
        /\ Rows(q) = nx - 1 /\ Cols(q) = ny - 1

\* C17: a LinearDensityFilter with a radius r <= 0 is rejected by setup: it
\* never gets a weight matrix, so none with an all-zero row.
C17_NonPositiveRadiusIsRejected ==
    (filter_r # Null /\ FLeq(filter_r, FInt(0))) => weight_mtx = Null

\* C18: for every radius r > 0 and every mesh, each row of the weight matrix
\* has entries that are not negative and sum to 1, and the filter returns a
\* uniform density field unchanged.
C18_WeightRowsSumToOne ==
    (weight_mtx # Null /\ FLess(FInt(0), filter_r)) =>
        /\ \A row \in elems :
               /\ \A col \in elems : FLeq(FInt(0), weight_mtx[row][col])
               /\ FSumTo(weight_mtx[row], n_elem) = FInt(1)
        /\ (call.op = "LinearDensityFilter.compute"
               /\ \A e \in elems : call.density[e] = call.density[0]) =>
               \A e \in elems : call.density_filtered[e] = FInt(call.density[0])

\* a filter whose radius reaches a neighbour and not the whole box, applied
\* to a uniform density field other than zero
C18_Witness ==
    /\ call.op = "LinearDensityFilter.compute"
    /\ FLess(FInt(0), filter_r)
    /\ \A e \in elems : call.density[e] = 2
    /\ \E row, col \in elems :
          row # col /\ weight_mtx[row][col] # FInt(0) /\ weight_mtx[row][col] # weight_mtx[row][row]
    /\ \E row, col \in elems : weight_mtx[row][col] = FInt(0)

\* C19: Mass.compute returns exactly the sum of the entries of its density
\* input (zero for the all-zero vector, the number of elements for the
\* all-one vector), and the Jacobian is 1 for every element: raising one
\* entry by one raises the mass by one.
RECURSIVE total(_, _)
total(d, k) == IF k = 0 THEN 0 ELSE total(d, k - 1) + d[k - 1]

C19_MassIsSumOfDensity ==
    call.op = "Mass.compute" =>
        /\ call.mass = total(call.density, n_elem)
        /\ (\A e \in 0..(n_elem - 1) : call.density[e] = 0) => call.mass = 0
        /\ (\A e \in 0..(n_elem - 1) : call.density[e] = 1) => call.mass = n_elem
        /\ DOMAIN call.partials = 0..(n_elem - 1)
        /\ \A e \in 0..(n_elem - 1) :
              /\ call.partials[e] = 1
              /\ np_sum([call.density EXCEPT ![e] = @ + 1]) - call.mass = call.partials[e]

C19_Witness ==
    /\ call.op = "Mass.compute"
    /\ n_elem = 4
    /\ call.density = [e \in 0..3 |-> IF e = 0 THEN 0 ELSE 1]
    /\ call.mass = 3


\* C20: SmoothStep.compute returns y_min for every entry <= x_min, y_max for
\* every entry >= x_max and a value in [y_min, y_max] for every entry;
\* compute_partials returns zero for every entry strictly outside
\* [x_min, x_max]; the Jacobian is diagonal: the declared entries are
\* (k, k) and output i does not change when another input j changes.
\* The options are an order n >= 1, x_min < x_max and y_min <= y_max.
C20_SmoothStepIsClippedAndDiagonal ==
    /\ call.op = "SmoothStep.compute" =>
          \A i \in DOMAIN call.in :
              /\ call.in[i] <= step.x_min => call.out[i] = FInt(step.y_min)
              /\ call.in[i] >= step.x_max => call.out[i] = FInt(step.y_max)
              /\ FLeq(FInt(step.y_min), call.out[i])
              /\ FLeq(call.out[i], FInt(step.y_max))
              /\ \A j \in DOMAIN call.in \ {i} : \A a \in StepValues :
                    SmoothStep_out([call.in EXCEPT ![j] = a][i]) = call.out[i]
    /\ call.op = "SmoothStep.compute_partials" =>
          /\ DOMAIN call.partials = DOMAIN call.in
          /\ DOMAIN call.rows = DOMAIN call.in
          /\ \A k \in DOMAIN call.in :
                /\ call.rows[k] = k
                /\ call.cols[k] = k
                /\ (call.in[k] < step.x_min \/ call.in[k] > step.x_max)
                       => call.partials[k] = FInt(0)

C20_Witness ==
    /\ call.op = "SmoothStep.compute_partials"
    /\ n_elem > 1
    /\ \E i, j \in DOMAIN call.in :
          /\ call.in[i] < step.x_min
          /\ call.partials[i] = FInt(0)
          /\ step.x_min < call.in[j]
          /\ call.in[j] < step.x_max
          /\ FLess(FInt(0), call.partials[j])


\* C21: PenalizeDensity.compute returns density^p entry by entry and
\* compute_partials returns p * density^(p-1) on the diagonal entries
\* (k, k); for p > 1 an entry strictly between 0 and 1 is strictly
\* lowered, and 0 and 1 are returned unchanged.
\* x^k as a repeated product, and its derivative by the product rule
RECURSIVE power(_, _)
power(x, k) == IF k = 0 THEN FInt(1) ELSE FMul(power(x, k - 1), x)
RECURSIVE power_derivative(_, _)
power_derivative(x, k) ==
    IF k = 0 THEN FInt(0)
    ELSE FAdd(FMul(power_derivative(x, k - 1), x), power(x, k - 1))

C21_PenalizeIsPower ==
    /\ call.op = "PenalizeDensity.compute" =>
          \A e \in DOMAIN call.density :
              /\ call.density_penalized[e] = power(call.density[e], penalty)
              /\ (penalty > 1 /\ FLess(FInt(0), call.density[e])
                              /\ FLess(call.density[e], FInt(1)))
                     => FLess(call.density_penalized[e], call.density[e])
              /\ call.density[e] \in {FInt(0), FInt(1)}
                     => call.density_penalized[e] = call.density[e]
    /\ call.op = "PenalizeDensity.compute_partials" =>
          /\ DOMAIN call.jacobian = DOMAIN call.density
          /\ DOMAIN call.rows = DOMAIN call.density
          /\ \A e \in DOMAIN call.density :
                /\ call.rows[e] = e
                /\ call.cols[e] = e
                /\ call.jacobian[e] = power_derivative(call.density[e], penalty)

C21_Witness ==
    /\ call.op = "PenalizeDensity.compute"
    /\ penalty > 1
    /\ \E e, f \in DOMAIN call.density :
          /\ FLess(FInt(0), call.density[e])
          /\ FLess(call.density[e], FInt(1))
          /\ FLess(call.density_penalized[e], call.density[e])
          /\ call.density[f] = FInt(1)
          /\ call.density_penalized[f] = FInt(1)


\* C22: after setup and after every rebuild, K_glob is symmetric when no node
\* has a prescribed temperature; in general its block on the rows and the
\* columns of the nodes without prescribed temperature is symmetric, and
\* every row of such a node sums to zero.
C22_FreeBlockIsSymmetric ==
    is_set_up =>
        /\ set_nodes = {} => \A n, m \in nodes : K_glob[n][m] = K_glob[m][n]
        /\ \A n, m \in nodes \ set_nodes : K_glob[n][m] = K_glob[m][n]
        /\ \A n \in nodes \ set_nodes : SumTo(K_glob[n], n_node) = 0

\* a rebuild with element densities that differ on a mesh with prescribed
\* nodes, where the whole matrix is not symmetric but the free block has
\* entries off the diagonal
C22_Witness ==
    /\ call.op = "_update_global_stiffness"
    /\ \E e1, e2 \in elems : density[e1] # density[e2]
    /\ \E n \in set_nodes, m \in nodes \ set_nodes : K_glob[m][n] # K_glob[n][m]
    /\ \E n, m \in nodes \ set_nodes : n # m /\ K_glob[n][m] # 0


\* C23: for every node n without prescribed temperature, F_glob[n] is the sum
\* over the elements with n as a corner of q[e] times the element area
\* divided by 4; the loop that skips the elements with q = 0 leaves there the
\* same entries as the reference loop over every element; F_glob is all zero
\* when q is zero everywhere and no node is prescribed.
elem_area == ((x_lim[2] - x_lim[1]) \div (nx - 1)) * ((y_lim[2] - y_lim[1]) \div (ny - 1))

C23_ForceIsSumOfElementLoads ==
    is_set_up =>
        /\ \A n \in nodes \ set_nodes :
              /\ 4 * F_glob[n] =
                    SumTo([e \in elems |->
                              IF is_corner_of(n, e)
                              THEN q[elem_i(e)][elem_j(e)] * elem_area ELSE 0], n_elem)
              /\ F_glob[n] = set_element_heat[n]
        /\ (no_heat /\ set_nodes = {}) => \A n \in nodes : F_glob[n] = 0

\* two elements with different heat share a node without prescribed
\* temperature, a third element has none, and some node is prescribed
C23_Witness ==
    /\ call.op = "_update_global_force"
    /\ set_nodes # {}
    /\ \E e \in elems : q[elem_i(e)][elem_j(e)] = 0
    /\ \E e1, e2 \in elems : \E n \in nodes \ set_nodes :
          /\ q[elem_i(e1)][elem_j(e1)] = 2
          /\ q[elem_i(e2)][elem_j(e2)] = 4
          /\ is_corner_of(n, e1)
          /\ is_corner_of(n, e2)
          /\ F_glob[n] = 3


\* C24: for every radius r > 0 every element is in the box searched around
\* itself and has the weight 1 before normalisation, so it is kept, the sum
\* that a row is divided by is at least 1, never zero, and the row of the
\* weight matrix has its diagonal entry 1 / sum.
C24_OwnWeightIsOne ==
    (weight_mtx # Null /\ FLess(FInt(0), filter_r)) =>
        \A row \in elems :
            LET idx_x == row \div (ny - 1)
                idx_y == row % (ny - 1)
            IN  /\ in_box(idx_x, idx_y, row)
                /\ wj_row(idx_x, idx_y)[row] = FInt(1)
                /\ row \in cols_i(idx_x, idx_y)
                /\ FLeq(FInt(1), wj_sum(idx_x, idx_y))
                /\ wj_sum(idx_x, idx_y)[1] # 0
                /\ weight_mtx[row][row] = FDiv(FInt(1), wj_sum(idx_x, idx_y))

\* a radius for which some row keeps a neighbour, so that the sum exceeds 1
\* and the normalised own weight is below 1
C24_Witness ==
    /\ call.op = "LinearDensityFilter.setup"
    /\ FLess(FInt(0), filter_r)
    /\ n_elem > 1
    /\ \E row \in elems :
          /\ FLess(FInt(1), wj_sum(row \div (ny - 1), row % (ny - 1)))
          /\ FLess(weight_mtx[row][row], FInt(1))

\* C25: for r > 0 the box searched around element i holds every element j
\* whose centroid is at a distance strictly below r from the centroid of i;
\* every such j has the weight 1 - dist^2 / r^2 > 0 before normalisation, is
\* kept, and has a positive entry in row i of the weight matrix.
centroid_dist2(i, j) ==
    LET dx == FMul(FInt((i \div (ny - 1)) - (j \div (ny - 1))), x_spacing)
        dy == FMul(FInt((i % (ny - 1)) - (j % (ny - 1))), y_spacing)
    IN  FAdd(FMul(dx, dx), FMul(dy, dy))

C26_OperatorsAreOfLastLinearize ==
    /\ [](call.op = "linearize" =>
             pRpu = stiffness(call.density) /\ pRpx = partial_density(call.temp))
    /\ [][call'.op # "linearize" => (pRpu' = pRpu /\ pRpx' = pRpx)]_vars
    /\ [][(call'.op \in {"apply_nonlinear", "solve_nonlinear"} /\ pRpu # Null
              /\ call'.density # density)
             => (K_glob' # K_glob /\ pRpu' = pRpu /\ pRpx' = pRpx)]_vars
    /\ []((call.op = "apply_linear" /\ call.d_residuals # Null /\ call.mode = "fwd") =>
             \A n \in nodes :
                 call.after.d_residuals[n] =
                     One * call.d_residuals[n]
                     + (IF call.d_outputs = Null THEN 0
                        ELSE SumTo([m \in nodes |-> pRpu[n][m] * call.d_outputs[m]], n_node))
                     + (IF call.d_inputs = Null THEN 0
                        ELSE SumTo([e \in elems |-> pRpx[n][e] * call.d_inputs[e]], n_elem)))
    /\ []((call.op = "solve_linear" /\ call.mode = "fwd" /\ ~call.sing) =>
             LET L == common_den(call.x, n_node)
                 y == [i \in nodes |-> call.x[i][1] * (L \div call.x[i][2])]
             IN  \A i \in nodes :
                     SumTo([j \in nodes |-> pRpu[i][j] * y[j]], n_node) = One * call.rhs[i] * L)

\* apply_linear after a call that rebuilt K_glob for another density than the
\* one of the last linearize: the result is the one of pRpu, not of K_glob
C26_Witness ==
    /\ call.op = "apply_linear"
    /\ call.mode = "fwd"
    /\ call.d_outputs # Null
    /\ call.d_residuals # Null
    /\ pRpu # K_glob
    /\ call.after.d_residuals #
           AddMatVec(call.d_residuals, MatVec(K_glob, call.d_outputs, n_node, n_node))


\* C27: apply_linear without d_residuals changes none of the three vectors;
\* in mode fwd it changes d_residuals only, in mode rev d_outputs and
\* d_inputs only, a vector that is absent stays absent and contributes
\* nothing, and the products are added to what the vectors held; the
\* members of the component are left as they are.
C27_ApplyLinearFrame ==
    /\ [](call.op = "apply_linear" =>
            LET u == call.d_outputs
                v == call.d_inputs
                w == call.d_residuals
                after == call.after
            IN  /\ w = Null => /\ after.d_residuals = Null
                               /\ after.d_outputs = Quarters(u)
                               /\ after.d_inputs = Quarters(v)
                /\ (w # Null /\ call.mode = "fwd") =>
                       /\ after.d_outputs = Quarters(u)
                       /\ after.d_inputs = Quarters(v)
                       /\ \A n \in nodes :
                              after.d_residuals[n] - One * w[n] =
                                  (IF u = Null THEN 0
                                   ELSE SumTo([m \in nodes |-> pRpu[n][m] * u[m]], n_node))
                                  + (IF v = Null THEN 0
                                     ELSE SumTo([e \in elems |-> pRpx[n][e] * v[e]], n_elem))
                /\ (w # Null /\ call.mode = "rev") =>
                       /\ after.d_residuals = Quarters(w)
                       /\ u = Null => after.d_outputs = Null
                       /\ v = Null => after.d_inputs = Null
                       /\ u # Null =>
                              \A m \in nodes :
                                  after.d_outputs[m] - One * u[m] =
                                      SumTo([n \in nodes |-> pRpu[n][m] * w[n]], n_node)
                       /\ v # Null =>
                              \A e \in elems :
                                  after.d_inputs[e] - One * v[e] =
                                      SumTo([n \in nodes |-> pRpx[n][e] * w[n]], n_node))
    /\ [][call'.op = "apply_linear" =>
             UNCHANGED <<options, preprocessed, density, K_glob, F_glob, pRpu, pRpx>>]_vars

\* mode rev with d_outputs present and d_inputs absent: d_outputs changes, by
\* a product that is not zero, from contents that are not zero
C27_Witness ==
    /\ call.op = "apply_linear"
    /\ call.mode = "rev"
    /\ call.d_residuals # Null
    /\ call.d_outputs # Null
    /\ call.d_inputs = Null
    /\ call.after.d_inputs = Null
    /\ call.after.d_outputs # Quarters(call.d_outputs)
    /\ \E m \in nodes : call.d_outputs[m] # 0 /\ call.after.d_outputs[m] # One * call.d_outputs[m]


\* C28: after AvgTemp.compute with finite inputs, whatever the output array
\* held before, avg_temp[e] is density[e] times the mean of the temperatures
\* of the four corners of e; after compute_partials with finite inputs the
\* partial with respect to density[e] is that mean, and the partial of
\* avg_temp[e] with respect to the temperature of node n is density[e] / 4
\* for a corner n of e and zero for every other node.
finite_inputs == \A k \in DOMAIN call.temp : call.temp[k][2] # 0
corner_mean(temp, e) ==
    FDiv(FSumTo([n \in nodes |-> IF is_corner_of(n, e) THEN temp[n] ELSE FInt(0)], n_node),
         FInt(4))

C28_AvgTempIsWeightedMean ==
    /\ (call.op = "AvgTemp.compute" /\ finite_inputs) =>
          \A e \in elems : avg_temp[e] = FMul(call.density[e], corner_mean(call.temp, e))
    /\ (call.op = "AvgTemp.compute_partials" /\ finite_inputs) =>
          /\ \A e \in elems : avg_jacobian.density[e] = corner_mean(call.temp, e)
          /\ \A e \in elems, n \in nodes :
                LET entries == {k \in DOMAIN avg_jacobian.temp :
                                    call.rows[k] = e /\ call.cols[k] = n}
                IN  IF is_corner_of(n, e)
                    THEN /\ Cardinality(entries) = 1
                         /\ \A k \in entries :
                                avg_jacobian.temp[k] = FDiv(call.density[e], FInt(4))
                    ELSE entries = {}


\* C29: findBetterExit returns None when no point of the trail slower than
\* 80 lies in an exit box; otherwise, for an arrival it returns the exit of
\* the first such point of the trail in the order given, and for a departure
\* (the trail reversed) the exit of the last such point.
slow_exit_points ==
    {i \in 1..Len(flightDetails.trail) :
        /\ flightDetails.trail[i].spd < 80
        /\ exits_at(<<flightDetails.trail[i].lng, flightDetails.trail[i].lat>>) # {}}
exit_of_point(i) ==
    LET E == exits_at(<<flightDetails.trail[i].lng, flightDetails.trail[i].lat>>)
    IN  <<CHOOSE j \in E : \A k \in E : j <= k>>

C29_ArrivalFirstDepartureLast ==
    call.op = "findBetterExit" =>
        IF slow_exit_points = {} THEN call.exitCode = None
        ELSE LET first == CHOOSE i \in slow_exit_points : \A k \in slow_exit_points : i <= k
                 last == CHOOSE i \in slow_exit_points : \A k \in slow_exit_points : k <= i
             IN  call.exitCode = exit_of_point(IF isDeparture THEN last ELSE first)


\* C30: in a session of catchDepartures or catchArrivals no flight number is
\* saved twice, whatever the API returns or raises and however saving fails;
\* every flight saved by catchDepartures was in the air or on the ground
\* away from the airport, and every flight saved by catchArrivals was on the
\* ground at the airport with an exit found for a trail of it.
exit_detected ==
    \E details \in {[trail |-> s] : s \in Trails(1)} :
        LET exitCode == findExitForTrail(extractTrail(details))
        IN  "raised" \notin DOMAIN exitCode /\ exitCode.value # None

====
